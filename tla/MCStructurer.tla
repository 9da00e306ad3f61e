---------------------------- MODULE MCStructurer ----------------------------
(***************************************************************************)
(* Every function of N blocks that the decoder and CfgBuilder can produce. *)
(***************************************************************************)
EXTENDS StructuredFlow

CONSTANTS
  N,      \* number of blocks
  Base    \* the address of the first one

Last == Base + N - 1
Outside == Last + 1   \* an address where no block starts
MCAddress == 0 .. Outside

Ends(a) ==
  {[kind |-> "branch", target |-> t] : t \in Base .. Outside}
    \union {[kind |-> "cbranch", target |-> t] : t \in Base .. Outside}
    \union {[kind |-> "fall", target |-> t] : t \in {a + 1, Outside + 1}}
    \union (IF a = Last THEN {[kind |-> "return", target |-> 0]} ELSE {})

(* The successors connect_edges gives block a.  A "fall" either continues  *)
(* to the next block or is an unresolved jump.                             *)
Edges(a, end) ==
  {t \in Base .. Last :
     \/ end.kind \in {"branch", "cbranch"} /\ t = end.target
     \/ end.kind = "cbranch" /\ t = a + 1
     \/ end.kind = "fall" /\ end.target = a + 1 /\ t = a + 1}

(* A block without a terminator ends because the next one is a target.     *)
Separated(ends) ==
  \A a \in Base .. Last - 1 :
    ends[a].kind = "fall" /\ ends[a].target = a + 1 =>
      \E c \in Base .. Last : ends[c].kind \in {"branch", "cbranch"} /\ ends[c].target = a + 1

MCFunctions ==
  { [entry |-> Base,
     blocks |-> [a \in Base .. Last |->
                   [kind |-> ends[a].kind, target |-> ends[a].target,
                    successors |-> Edges(a, ends[a])]]]
    : ends \in {e \in [Base .. Last -> UNION {Ends(a) : a \in Base .. Last}] :
                  (\A a \in Base .. Last : e[a] \in Ends(a)) /\ Separated(e)} }

=============================================================================
