------------------------------ MODULE Bindings ------------------------------
(***************************************************************************)
(* What the translation pass promises, without its visitors: every C++     *)
(* declaration has at most one D node, which comes into being bare or      *)
(* filled, may be filled later and never gets poorer; a node is exported   *)
(* at most once, after it came into being, and exports are never taken     *)
(* back; the pass ends, and then nothing changes any more.                 *)
(***************************************************************************)
EXTENDS Sequences, Naturals

CONSTANT Decl

VARIABLES
  life,     \* what there is of the node of a declaration
  exports,  \* the declarations placed in the output module, in order
  running   \* whether the pass is still at work

vars == <<life, exports, running>>

Stage == {"absent", "bare", "filled"}

Exported == {exports[i] : i \in 1..Len(exports)}

TypeOK ==
  /\ life \in [Decl -> Stage]
  /\ exports \in Seq(Decl)
  /\ running \in BOOLEAN

Init ==
  /\ life = [d \in Decl |-> "absent"]
  /\ exports = <<>>
  /\ running = TRUE

(* One declaration gets a node, or its node is filled.                     *)
Advance(d, stage) ==
  /\ \/ life[d] = "absent" /\ stage = "bare"
     \/ stage = "filled"
  /\ life' = [life EXCEPT ![d] = stage]

(* A node that exists, or has just come to exist, is exported.             *)
Export(d) ==
  /\ d \notin Exported
  /\ life'[d] # "absent"
  /\ exports' = Append(exports, d)

Next ==
  /\ running
  /\ running' \in BOOLEAN
  /\ life' = life \/ \E d \in Decl, stage \in Stage : Advance(d, stage)
  /\ exports' = exports \/ \E d \in Decl : Export(d)

(* What every state and every step of the pass promises, without the end.  *)
Safe == Init /\ [][Next]_vars

Spec == Safe /\ <>~running
=============================================================================
