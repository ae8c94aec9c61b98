--------------------------- MODULE ExternCatalog ---------------------------
(***************************************************************************)
(* The extern function catalog of src/rrecomp.cpp (extern_functions) and   *)
(* the two walkers that read its parameter strings:                        *)
(*   - the liveness walker of r_pass5, which turns the parameter string of *)
(*     the extern called on an extern_function edge into the set of        *)
(*     registers the call reads (ArgRegs), and the return-type switch of   *)
(*     r_pass4 (RetRegs);                                                  *)
(*   - the marshal walker of r_dump_jal, which emits the wrapper call and  *)
(*     so decides which registers the generated C really reads            *)
(*     (MarshalReads).                                                     *)
(* A parameter string is a tuple of one-character strings: the first is    *)
(* the return type, the others the argument types (v i u p f d l j t).     *)
(***************************************************************************)
EXTENDS Integers, Sequences, SequencesExt, Program

NoMem  == {"NO_MEM"}      \* FLAG_NO_MEM
VarArg == {"VARARG"}      \* FLAG_VARARG

X(n, p, f) == [name |-> n, params |-> p, flags |-> f]

\* Slip: a parameter string with a letter no walker knows.
CatalogTypo == <<X("strlen", <<"u","q">>, {})>>

\* extern_functions[], in source order
Catalog == <<
    X("exit", <<"v","i">>, {}), X("abort", <<"v">>, {}),
    X("sbrk", <<"p","i">>, {}), X("malloc", <<"p","u">>, {}),
    X("calloc", <<"p","u","u">>, {}), X("realloc", <<"p","p","u">>, {}),
    X("free", <<"v","p">>, {}), X("fscanf", <<"i","p","p">>, VarArg),
    X("printf", <<"i","p">>, VarArg), X("sprintf", <<"i","p","p">>, VarArg),
    X("fprintf", <<"i","p","p">>, VarArg),
    X("_doprnt", <<"i","p","p","p">>, {}), X("strlen", <<"u","p">>, {}),
    X("open", <<"i","p","i","i">>, {}), X("creat", <<"i","p","i">>, {}),
    X("access", <<"i","p","i">>, {}), X("rename", <<"i","p","p">>, {}),
    X("utime", <<"i","p","p">>, {}), X("flock", <<"i","i","i">>, {}),
    X("chmod", <<"i","p","u">>, {}), X("umask", <<"i","i">>, NoMem),
    X("ecvt", <<"p","d","i","p","p">>, {}),
    X("fcvt", <<"p","d","i","p","p">>, {}), X("sqrt", <<"d","d">>, NoMem),
    X("sqrtf", <<"f","f">>, NoMem), X("atoi", <<"i","p">>, {}),
    X("atol", <<"i","p">>, {}), X("atof", <<"d","p">>, {}),
    X("strtol", <<"i","p","p","i">>, {}),
    X("strtoul", <<"u","p","p","i">>, {}),
    X("strtoll", <<"l","p","p","i">>, {}),
    X("strtoull", <<"j","p","p","i">>, {}), X("strtod", <<"d","p","p">>, {}),
    X("strchr", <<"p","p","i">>, {}), X("strrchr", <<"p","p","i">>, {}),
    X("strcspn", <<"u","p","p">>, {}), X("strpbrk", <<"p","p","p">>, {}),
    X("fstat", <<"i","i","p">>, {}), X("stat", <<"i","p","p">>, {}),
    X("ftruncate", <<"i","i","i">>, {}), X("bcopy", <<"v","p","p","u">>, {}),
    X("memcpy", <<"p","p","p","u">>, {}),
    X("memccpy", <<"p","p","p","i","u">>, {}),
    X("read", <<"i","i","p","u">>, {}), X("write", <<"i","i","p","u">>, {}),
    X("fopen", <<"p","p","p">>, {}), X("freopen", <<"p","p","p","p">>, {}),
    X("fclose", <<"i","p">>, {}), X("ftell", <<"i","p">>, {}),
    X("rewind", <<"v","p">>, {}), X("fseek", <<"i","p","i","i">>, {}),
    X("lseek", <<"i","i","i","i">>, {}), X("fflush", <<"i","p">>, {}),
    X("dup", <<"i","i">>, {}), X("dup2", <<"i","i","i">>, {}),
    X("pipe", <<"i","p">>, {}), X("perror", <<"v","p">>, {}),
    X("fdopen", <<"i","i","p">>, {}), X("memset", <<"p","p","i","u">>, {}),
    X("bcmp", <<"i","p","p","u">>, {}), X("memcmp", <<"i","p","p","u">>, {}),
    X("getpid", <<"i">>, NoMem), X("getpgrp", <<"i">>, {}),
    X("remove", <<"i","p">>, {}), X("unlink", <<"i","p">>, {}),
    X("close", <<"i","i">>, {}), X("strcmp", <<"i","p","p">>, {}),
    X("strncmp", <<"i","p","p","u">>, {}), X("strcpy", <<"p","p","p">>, {}),
    X("strncpy", <<"p","p","p","u">>, {}), X("strcat", <<"p","p","p">>, {}),
    X("strncat", <<"p","p","p","u">>, {}), X("strtok", <<"p","p","p">>, {}),
    X("strstr", <<"p","p","p">>, {}), X("strdup", <<"p","p">>, {}),
    X("toupper", <<"i","i">>, NoMem), X("tolower", <<"i","i">>, NoMem),
    X("gethostname", <<"i","p","u">>, {}), X("isatty", <<"i","i">>, {}),
    X("strftime", <<"u","p","u","p","p">>, {}), X("times", <<"i","p">>, {}),
    X("clock", <<"i">>, NoMem), X("ctime", <<"p","p">>, {}),
    X("localtime", <<"p","p">>, {}),
    X("setvbuf", <<"i","p","p","i","u">>, {}),
    X("__semgetc", <<"i","p">>, {}), X("__semputc", <<"i","i","p">>, {}),
    X("fgetc", <<"i","p">>, {}), X("fgets", <<"i","p","i","p">>, {}),
    X("__filbuf", <<"i","p">>, {}), X("__flsbuf", <<"i","i","p">>, {}),
    X("ungetc", <<"i","i","p">>, {}), X("gets", <<"p","p">>, {}),
    X("fread", <<"u","p","u","u","p">>, {}),
    X("fwrite", <<"u","p","u","u","p">>, {}),
    X("fputs", <<"i","p","p">>, {}), X("puts", <<"i","p">>, {}),
    X("getcwd", <<"p","p","u">>, {}), X("time", <<"i","p">>, {}),
    X("bzero", <<"v","p","u">>, {}), X("fp_class_d", <<"i","d">>, NoMem),
    X("ldexp", <<"d","d","i">>, NoMem),
    X("__ll_mul", <<"l","l","l">>, NoMem),
    X("__ll_div", <<"l","l","l">>, NoMem),
    X("__ll_rem", <<"l","j","l">>, NoMem),
    X("__ll_lshift", <<"l","l","j">>, NoMem),
    X("__ll_rshift", <<"l","l","j">>, NoMem),
    X("__ull_div", <<"j","j","j">>, NoMem),
    X("__ull_rem", <<"j","j","j">>, NoMem),
    X("__ull_rshift", <<"j","j","j">>, NoMem),
    X("__d_to_ull", <<"j","d">>, NoMem), X("__d_to_ll", <<"l","d">>, NoMem),
    X("__f_to_ull", <<"j","f">>, NoMem), X("__f_to_ll", <<"l","f">>, NoMem),
    X("__ull_to_f", <<"f","j">>, NoMem), X("__ll_to_f", <<"f","l">>, NoMem),
    X("__ull_to_d", <<"d","j">>, NoMem), X("__ll_to_d", <<"d","l">>, NoMem),
    X("_exit", <<"v","i">>, {}), X("_cleanup", <<"v">>, {}),
    X("_rld_new_interface", <<"p","u">>, VarArg),
    X("_exithandle", <<"v">>, {}), X("_prctl", <<"i","i">>, VarArg),
    X("_atod", <<"d","p","i","i">>, {}), X("pathconf", <<"i","p","i">>, {}),
    X("getenv", <<"p","p">>, {}), X("gettxt", <<"p","p","p">>, {}),
    X("setlocale", <<"p","i","p">>, {}),
    X("mmap", <<"p","p","u","i","i","i","i">>, {}),
    X("munmap", <<"i","p","u">>, {}), X("mprotect", <<"i","p","u","i">>, {}),
    X("sysconf", <<"i","i">>, {}), X("getpagesize", <<"i">>, {}),
    X("strerror", <<"p","i">>, {}), X("ioctl", <<"i","i","u">>, VarArg),
    X("fcntl", <<"i","i","i">>, VarArg), X("signal", <<"p","i","t">>, {}),
    X("sigset", <<"p","i","t">>, {}), X("get_fpc_csr", <<"i">>, {}),
    X("set_fpc_csr", <<"i","i">>, {}), X("setjmp", <<"i","p">>, {}),
    X("longjmp", <<"v","p","i">>, {}), X("tempnam", <<"p","p","p">>, {}),
    X("tmpnam", <<"p","p">>, {}), X("mktemp", <<"p","p">>, {}),
    X("mkstemp", <<"i","p">>, {}), X("tmpfile", <<"p">>, {}),
    X("wait", <<"i","p">>, {}), X("kill", <<"i","i","i">>, {}),
    X("execlp", <<"i","p">>, VarArg), X("execv", <<"i","p","p">>, {}),
    X("execvp", <<"i","p","p">>, {}), X("fork", <<"i">>, {}),
    X("system", <<"i","p">>, {}), X("tsearch", <<"p","p","p","p">>, {}),
    X("tfind", <<"p","p","p","p">>, {}),
    X("qsort", <<"v","p","u","u","t">>, {}),
    X("regcmp", <<"p","p">>, VarArg), X("regex", <<"p","p","p">>, VarArg),
    X("__assert", <<"v","p","p","i">>, {})
    >>

CatalogNames == {Catalog[k].name : k \in DOMAIN Catalog}

\* The lookup loop "for (auto& fn : extern_functions) if (name == fn.name)":
\* the first entry with that name.  Defined only for names in CatalogNames.
FindExtern(name) ==
    Catalog[CHOOSE k \in DOMAIN Catalog :
              /\ Catalog[k].name = name
              /\ \A m \in 1..(k - 1) : Catalog[m].name # name]

\* RABBITIZER_REG_GPR_O32_a0 + k, for the k the walkers can reach: the
\* register after $a3 in the numbering is $t0.
ARegAt(k) == <<"a0", "a1", "a2", "a3", "t0">>[k + 1]

IntClass  == {"i", "u", "p", "t"}
LongClass == {"l", "j"}

(***************************************************************************)
(* r_pass4, extern_function edge: the return registers the call defines.   *)
(***************************************************************************)
RetRegs(fn) ==
    CASE fn.params[1] \in {"i", "u", "p"} -> {"v0"}
      [] fn.params[1] \in LongClass       -> {"v0", "v1"}
      [] OTHER                            -> {}

(***************************************************************************)
(* r_pass5, extern_function edge: the parameter walker.  The state is      *)
(* pos, pos_float, only_floats_so_far and the args mask built so far.      *)
(* The "alignment" of d, l and j tests pos % 1 # 0, which never holds.     *)
(***************************************************************************)
ArgInit == [pos |-> 0, posf |-> 0, onlyf |-> TRUE, args |-> {}]

\* Slip: an integer argument at position 4 is still given a register.
ArgStepPastA3(st, c) ==
    LET p  == IF c \in {"d"} \cup LongClass /\ st.pos % 1 # 0
              THEN st.pos + 1 ELSE st.pos
        fast == st.onlyf /\ st.posf < 4
    IN CASE c \in IntClass ->
              [st EXCEPT !.onlyf = FALSE, !.pos = p + 1,
                         !.args = IF p <= 4 THEN @ \cup {ARegAt(p)} ELSE @]
         [] c = "f" ->
              [st EXCEPT !.pos = p + 1,
                         !.posf = IF fast THEN @ + 2 ELSE @,
                         !.args = IF ~fast /\ p < 4 THEN @ \cup {ARegAt(p)}
                                  ELSE @]
         [] c = "d" ->
              [st EXCEPT !.pos = p + 2,
                         !.posf = IF fast THEN @ + 2 ELSE @,
                         !.args = IF ~fast /\ p < 4
                                  THEN @ \cup {ARegAt(p), ARegAt(p + 1)}
                                  ELSE @]
         [] c \in LongClass ->
              [st EXCEPT !.onlyf = FALSE, !.pos = p + 2,
                         !.args = IF p < 4
                                  THEN @ \cup {ARegAt(p), ARegAt(p + 1)}
                                  ELSE @]
         [] OTHER -> st

ArgStep(st, c) ==
    LET p  == IF c \in {"d"} \cup LongClass /\ st.pos % 1 # 0
              THEN st.pos + 1 ELSE st.pos
        fast == st.onlyf /\ st.posf < 4
    IN CASE c \in IntClass ->
              [st EXCEPT !.onlyf = FALSE, !.pos = p + 1,
                         !.args = IF p < 4 THEN @ \cup {ARegAt(p)} ELSE @]
         [] c = "f" ->
              [st EXCEPT !.pos = p + 1,
                         !.posf = IF fast THEN @ + 2 ELSE @,
                         !.args = IF ~fast /\ p < 4 THEN @ \cup {ARegAt(p)}
                                  ELSE @]
         [] c = "d" ->
              [st EXCEPT !.pos = p + 2,
                         !.posf = IF fast THEN @ + 2 ELSE @,
                         !.args = IF ~fast /\ p < 4
                                  THEN @ \cup {ARegAt(p), ARegAt(p + 1)}
                                  ELSE @]
         [] c \in LongClass ->
              [st EXCEPT !.onlyf = FALSE, !.pos = p + 2,
                         !.args = IF p < 4
                                  THEN @ \cup {ARegAt(p), ARegAt(p + 1)}
                                  ELSE @]
         [] OTHER -> st

\* Slip: the FLAG_VARARG test is left out.
ArgRegsNoVararg(fn) ==
    {Reach, "sp"} \cup FoldLeft(ArgStep, ArgInit, Tail(fn.params)).args

\* args: the reachable bit, $a0..$a3 for a vararg extern, the walker's
\* registers and $sp.
ArgRegs(fn) ==
    {Reach, "sp"}
    \cup (IF fn.flags = VarArg THEN {"a0", "a1", "a2", "a3"} ELSE {})
    \cup FoldLeft(ArgStep, ArgInit, Tail(fn.params)).args

(***************************************************************************)
(* r_dump_jal: the marshal walker.  reads collects the GPRs the emitted    *)
(* argument list reads; an argument passed on the stack reads $sp.  A 't'  *)
(* argument also passes "trampoline" and requires $sp as a final argument. *)
(***************************************************************************)
MarshalInit == [pos |-> 0, posf |-> 0, onlyf |-> TRUE, needsSp |-> FALSE,
                reads |-> {}]

MarshalStep(st, c) ==
    LET p  == IF c \in {"d"} \cup LongClass /\ st.pos % 1 # 0
              THEN st.pos + 1 ELSE st.pos
        fast == st.onlyf /\ st.posf < 4
        Word(k) == IF k < 4 THEN {ARegAt(k)} ELSE {"sp"}
    IN CASE c \in IntClass ->
              [st EXCEPT !.onlyf = FALSE, !.pos = p + 1,
                         !.needsSp = @ \/ c = "t",
                         !.reads = @ \cup Word(p)]
         [] c = "f" ->
              [st EXCEPT !.pos = p + 1,
                         !.posf = IF fast THEN @ + 2 ELSE @,
                         !.reads = IF fast THEN @ ELSE @ \cup Word(p)]
         [] c = "d" ->
              [st EXCEPT !.pos = p + 2,
                         !.posf = IF fast THEN @ + 2 ELSE @,
                         !.reads = IF fast THEN @
                                   ELSE IF p < 4
                                   THEN @ \cup {ARegAt(p), ARegAt(p + 1)}
                                   ELSE @ \cup {"sp"}]
         [] c \in LongClass ->
              [st EXCEPT !.onlyf = FALSE, !.pos = p + 2,
                         !.reads = IF p < 4
                                   THEN @ \cup {ARegAt(p), ARegAt(p + 1)}
                                   ELSE @ \cup {"sp"}]
         [] OTHER -> st

\* The registers the emitted "MEM_U32(sp + 4j) = aj; ... wrapper_f(...)"
\* reads: the vararg spill of $a0..$a3, the arguments, and the trailing $sp.
MarshalReads(fn) ==
    LET st == FoldLeft(MarshalStep, MarshalInit, Tail(fn.params))
    IN (IF fn.flags = VarArg THEN {"a0", "a1", "a2", "a3"} ELSE {})
       \cup st.reads
       \cup (IF fn.flags = VarArg \/ st.needsSp THEN {"sp"} ELSE {})

(***************************************************************************)
(* Reference: the O32 argument registers as spec section 4.5 and the       *)
(* glossary state them, with d, l and j aligned to an even position.       *)
(***************************************************************************)
O32Step(st, c) ==
    LET p == IF c \in {"d"} \cup LongClass THEN st.pos + (st.pos % 2)
             ELSE st.pos
        fast == st.onlyf /\ st.posf < 4
        Pair == IF p < 4 THEN {AReg[p + 1], AReg[p + 2]} ELSE {}
    IN CASE c \in IntClass ->
              [st EXCEPT !.onlyf = FALSE, !.pos = p + 1,
                         !.args = IF p < 4 THEN @ \cup {AReg[p + 1]} ELSE @]
         [] c = "f" /\ fast -> [st EXCEPT !.pos = p + 1, !.posf = @ + 2]
         [] c = "f" ->
              [st EXCEPT !.pos = p + 1,
                         !.args = IF p < 4 THEN @ \cup {AReg[p + 1]} ELSE @]
         [] c = "d" /\ fast -> [st EXCEPT !.pos = p + 2, !.posf = @ + 2]
         [] c = "d" -> [st EXCEPT !.pos = p + 2, !.args = @ \cup Pair]
         [] c \in LongClass ->
              [st EXCEPT !.onlyf = FALSE, !.pos = p + 2, !.args = @ \cup Pair]
         [] OTHER -> st

O32ArgRegs(fn) ==
    {Reach, "sp"}
    \cup (IF fn.flags = VarArg THEN {"a0", "a1", "a2", "a3"} ELSE {})
    \cup FoldLeft(O32Step, ArgInit, Tail(fn.params)).args

=============================================================================
