--------------------------- MODULE MCFunctionTable ---------------------------
(***************************************************************************)
(* Inputs of the function-table model.  .text starts 8 bytes below        *)
(* 0x430b00, one of the words the scan knows to be an integer, so that     *)
(* word is a text address here as it is in as1.  The procedure table is   *)
(* one entry (40 bytes) of .data.                                          *)
(***************************************************************************)
EXTENDS FunctionTable, TLC

MCTextVaddr == 4393720                  \* 0x430af8
MCRodataVaddr == 268435456              \* 0x10000000
MCDataVaddr == 268435712                \* 0x10000100
MCProcTableStart == MCDataVaddr + 4
MCProcTableLen == 40

A(k) == MCTextVaddr + 4 * k

I(op) == [op |-> op, rs |-> "other", got |-> FALSE, imm |-> 0, lval |-> 0,
          paddr |-> 0]
JrRa == [I("jr") EXCEPT !.rs = "ra"]
\* a GOT-global load: the immediate is the gp offset, lval the entry
GotLw(off, v) == [I("lw") EXCEPT !.got = TRUE, !.imm = off, !.lval = v]

\* the vector r_disassemble builds: the words and the dummy NOP
Vec(s) == [k \in 0..Len(s) |-> IF k < Len(s) THEN s[k + 1] ELSE I("nop")]

Img(s, fs, syms, ro, da) ==
    [code |-> Vec(s), funcs |-> fs, symbols |-> syms, rodata |-> ro, data |-> da]

\* __start, a leaf whose "jr $ra" is its first word, h, xmalloc (IDO 5.3),
\* alloc_new, xfree, alloc_dispose 20 bytes on, and the _mcount stub
Ido53 ==
    <<I("other"), I("other"),
      JrRa, I("nop"),
      I("other"), JrRa, I("nop"),
      I("other"), I("other"), I("other"), I("other"), I("lw"), I("other"),
      I("other"),
      I("other"), JrRa, I("nop"),
      I("other"), I("other"), I("other"), I("lw"), I("other"),
      I("other"), JrRa, I("nop"),
      I("lw"), I("move"), I("jalr"), I("nop")>>
Ido53Funcs == {A(0), A(2), A(4), A(7), A(14), A(17), A(22), A(25)}
Ido53Syms ==
    A(0) :> "__start" @@ A(7) :> "xmalloc" @@ A(14) :> "alloc_new" @@
    A(17) :> "xfree" @@ A(22) :> "alloc_dispose"

\* .rodata: the integer 0x430b00 (= the leaf), h, a misaligned text
\* address, a plain integer.  .data: the stub, the procedure table (xfree
\* inside, alloc_new as its last word), then alloc_new just past it, then
\* the end of .text.
Rodata53 == <<A(2), A(4), A(4) + 2, 12345>>
Data53 ==
    <<A(25), A(17), 0, 0, 0, 0, 0, 0, 0, 0, A(14), A(14), A(29)>>

\* xmalloc in the IDO 7.1 layout (the LI six words on), alloc_new, xfree
\* with alloc_dispose 16 bytes on, and a function that loads a function
\* pointer from the GOT; the first function lies below _mcount and has no
\* return
Ido71 ==
    <<I("other"), I("other"),
      I("other"), I("other"), I("other"), I("other"), I("lw"), I("other"),
      I("ori"),
      JrRa, I("nop"),
      I("other"), I("other"), I("other"), I("lw"),
      JrRa, I("nop"),
      GotLw(-32000, A(9)), JrRa, I("nop")>>
Ido71Funcs == {A(0), A(2), A(9), A(11), A(15), A(17)}
Ido71Syms ==
    A(2) :> "xmalloc" @@ A(9) :> "alloc_new" @@ A(11) :> "xfree" @@
    A(15) :> "alloc_dispose"

\* h's "jr $ra" stored in .data: the scan makes it a function, h keeps no
\* return, and h lies below _mcount
Split == Img(Ido53, Ido53Funcs, Ido53Syms, <<>>, <<A(5)>>)

\* a static callback that only a later function's GOT load names
Callback ==
    Img(<<I("other"), JrRa, I("nop"),
          I("other"), JrRa, I("nop"),
          GotLw(-32000, A(3)), JrRa, I("nop")>>,
        {A(0), A(6)}, A(0) :> "f", <<>>, <<>>)

\* a library function with no return
Abandoned ==
    Img(<<I("other"), JrRa, I("nop"), I("other"), I("other"), I("other"),
          I("other"), I("other"), I("nop")>>,
        {A(0), A(7)}, A(7) :> "f", <<>>, <<>>)

\* a "jr $ra" before the first function
Orphan == Img(<<JrRa, I("nop"), I("other"), JrRa, I("nop")>>, {A(2)},
              A(2) :> "f", <<>>, <<>>)

\* xmalloc and xfree without the function the rewrite calls
NoAllocNew ==
    Img(<<I("other"), I("other"), I("other"), I("other"), I("lw"),
          I("other"), I("other"), I("other"), JrRa, I("nop")>>,
        {A(0), A(7)}, A(0) :> "xmalloc", <<>>, <<>>)
NoAllocDispose ==
    Img(<<I("other"), I("other"), I("other"), I("lw"), I("other"),
          I("other"), JrRa, I("nop")>>,
        {A(0), A(5)}, A(0) :> "xfree", <<>>, <<>>)

MCImages ==
    {Img(Ido53, Ido53Funcs, Ido53Syms, Rodata53, Data53),
     Img(Ido71, Ido71Funcs, Ido71Syms, <<A(17)>>, <<>>),
     Split, Callback, Abandoned, Orphan, NoAllocNew, NoAllocDispose}

\* _mcount lies between the program's functions and the library's
MCMcountAddr == A(6)
====
