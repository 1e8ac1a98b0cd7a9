------------------------------ MODULE MCEdits ------------------------------
(***************************************************************************)
(* What the operator edits, in two tabs: the configuration (MCFleet), or   *)
(* two documents with two texts.  The two have no state in common, so a    *)
(* behaviour is one of the configuration or one of the documents.          *)
(***************************************************************************)
EXTENDS MCFleet, Documents

VARIABLE part   \* which of the two a behaviour is of

EditsInit ==
  /\ Init /\ DocInit
  /\ \/ /\ part = "configuration"
        /\ docs = [s \in Slugs |-> Absent]
        /\ slug = [t \in Tabs |-> CHOOSE s \in Slugs : TRUE]
     \/ part = "documents" /\ guests = {}

EditsNext ==
  /\ \/ part = "configuration" /\ Next /\ UNCHANGED docVars
     \/ part = "documents" /\ DocNext /\ UNCHANGED vars
  /\ UNCHANGED part

EditsSpec == EditsInit /\ [][EditsNext]_<<vars, docVars, part>>
=============================================================================
