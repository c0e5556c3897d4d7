------------------------------ MODULE PowerCut ------------------------------
(***************************************************************************)
(* send_plan on a machine that loses power.  open_ledger and the writes of *)
(* append_ledger_entry leave an entry with the operating system, and       *)
(* nothing in the repository asks it to bring the file to the disk         *)
(* (File::sync_all): it does so when it likes.  A power cut takes the      *)
(* session, and the entries that had not got there.                        *)
(***************************************************************************)
EXTENDS SendPlan

VARIABLE stored   \* external: what of the ledger is on the disk

File == [ledger |-> ledger, recipientLog |-> recipientLog, tail |-> tail]

StoredInit == Init /\ stored = File

\* The operating system writes back what there is.
WriteBack ==
  /\ stored' = File
  /\ UNCHANGED vars

\* The machine goes down, with what runs on it, and comes back.
LosePower ==
  /\ ledger' = stored.ledger /\ recipientLog' = stored.recipientLog /\ tail' = stored.tail
  /\ End("stopped")
  /\ UNCHANGED <<chainVars, stored>>

StoredNext == (Next /\ UNCHANGED stored) \/ WriteBack \/ LosePower

PowerCutSpec == StoredInit /\ [][StoredNext]_<<vars, stored>>

\* "Write a durable prepared-batch ledger entry" comes before "Submit signed
\* transaction" in the specification of the program (docs/airdrop-cli-spec.md,
\* Transaction Execution 7 and 8): whatever the cluster has heard of is in the
\* ledger for good, also for the session after a power cut, so that it does
\* not sign the transfers again.
PreparedIsDurable == WriteAhead
=============================================================================
