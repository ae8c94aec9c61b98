-------------------------- MODULE MCExternCatalog --------------------------
(***************************************************************************)
(* Model-checks the parameter-string walkers of ExternCatalog.  A state is *)
(* the extern a JAL site resolves to (fn); every step resolves another     *)
(* call site.  Entries is the set of externs a call can resolve to: the    *)
(* catalog itself, or every short parameter string over the alphabet.     *)
(***************************************************************************)
EXTENDS ExternCatalog, FiniteSets

CONSTANT Entries

VARIABLE fn

\* The catalog as a set of entries.
CatalogEntries == {Catalog[k] : k \in DOMAIN Catalog}

\* Every parameter string of a "v" function with up to MaxArgs arguments.
MaxArgs == 3
ParamAlphabet == {"v", "i", "u", "p", "f", "d", "l", "j", "t"}
ShortEntries ==
    {X("s", <<"v">> \o args, fl) :
        args \in UNION {[1..n -> ParamAlphabet] : n \in 0..MaxArgs},
        fl \in {{}, VarArg}}

Init == fn \in Entries

\* A JAL to an extern: r_pass4, r_pass5 and r_dump_jal look the callee up.
CallExtern == fn' \in Entries

Spec == Init /\ [][CallExtern]_fn

TypeOK ==
    /\ fn \in Entries
    /\ Tail(fn.params) \in Seq(ParamAlphabet)

(***************************************************************************)
(* The registers backward liveness makes live on an extern_function edge   *)
(* (r_pass5) are exactly the argument registers the emitted wrapper call   *)
(* reads (r_dump_jal), plus $sp, which r_pass5 always adds: the two copies *)
(* of the walker neither drop a register the call reads (which would let   *)
(* the signature inferrer miss an argument) nor add one it does not.      *)
(***************************************************************************)
LivenessMatchesMarshal ==
    /\ MarshalReads(fn) \subseteq ArgRegs(fn)
    /\ ArgRegs(fn) \ {Reach, "sp"} = MarshalReads(fn) \ {"sp"}

(***************************************************************************)
(* The liveness walker of r_pass5 computes the O32 argument registers of   *)
(* spec section 4.5: d, l and j start at an even position, and nothing     *)
(* beyond $a3 is marked.                                                   *)
(***************************************************************************)
ArgRegsAreO32 == ArgRegs(fn) = O32ArgRegs(fn)

=============================================================================
