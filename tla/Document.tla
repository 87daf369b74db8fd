------------------------------- MODULE Document -------------------------------
(***************************************************************************)
(* What several editors of one document may expect when every edit is made *)
(* under a lock: between the call of an edit and its return there is one   *)
(* moment at which it is applied to what the document says then, or none,  *)
(* and nothing but edits that were asked for ever changes the document.    *)
(* Nothing is promised once it is spoilt, which happens only when a call   *)
(* begins or ends.                                                         *)
(***************************************************************************)
CONSTANTS Editors, Parts, Texts, Empty

VARIABLES doc,            \* what the document says, part by part
          spoilt,
          asked           \* per editor: the edit it has asked for, as a set

docVars == <<doc, spoilt, asked>>

DocInit ==
    /\ doc = [p \in Parts |-> Empty] /\ spoilt = FALSE
    /\ asked = [e \in Editors |-> {}]

Kept   == UNCHANGED <<doc, spoilt>>
Spoils == doc' = [p \in Parts |-> Empty] /\ spoilt' = TRUE

Ask(e) ==
    /\ asked[e] = {}
    /\ \E p \in Parts, t \in Texts : asked' = [asked EXCEPT ![e] = {<<p, t>>}]
    /\ Kept \/ Spoils

Apply(e) ==
    /\ ~spoilt
    /\ \E p \in Parts, t \in Texts :
         /\ asked[e] = {<<p, t>>}
         /\ doc' = [doc EXCEPT ![p] = t]
    /\ asked' = [asked EXCEPT ![e] = {}]
    /\ UNCHANGED spoilt

GiveUp(e) ==
    /\ asked[e] # {}
    /\ asked' = [asked EXCEPT ![e] = {}]
    /\ Kept \/ Spoils

DocNext == \E e \in Editors : Ask(e) \/ Apply(e) \/ GiveUp(e)

DocSpec == DocInit /\ [][DocNext]_docVars
=============================================================================
