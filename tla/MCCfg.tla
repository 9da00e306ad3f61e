------------------------------- MODULE MCCfg -------------------------------
(***************************************************************************)
(* All streams of up to three instructions, and streams of four of fewer   *)
(* kinds; the second instruction is two addresses long.  Branches go back, *)
(* forward, to themselves, to the next instruction, into the middle of an  *)
(* instruction and out of the function.                                    *)
(***************************************************************************)
EXTENDS CfgRebuild

MCAddress == 1 .. 5
StartsAt == <<1, 2, 4, 5>>

zf == Register(1000, 1)
Test == Binary("IntEqual", zf, zf, Constant(0, 1))

Jumps(targets) ==
  {<<Branch(Absolute(a))>> : a \in targets}
    \union {<<Test, CBranch(zf, Absolute(a))>> : a \in targets}

AllKinds == {<<Nop>>, <<Branch(Indirect)>>} \union Jumps({1, 3, 4, 5})
FewKinds == {<<Nop>>} \union Jumps({2, 4, 5})

(* n instructions; decoding stops at the first return.                     *)
StreamsOf(n, kinds) ==
  {[j \in 1 .. n |-> [address |-> StartsAt[j], ops |-> ops[j]]]
     : ops \in {o \in [1 .. n -> kinds \union {<<Return>>}] :
                  \A j \in 1 .. n : o[j] = <<Return>> => j = n}}

MCStreams == UNION {StreamsOf(n, AllKinds) : n \in 0 .. 3} \union StreamsOf(4, FewKinds)

=============================================================================
