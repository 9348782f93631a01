---------------------------- MODULE MCWarehouse ----------------------------
(***************************************************************************)
(* Instances of Warehouse for TLC: the sets of requests each run allows,   *)
(* and the symmetries of its ids.                                          *)
(***************************************************************************)
EXTENDS WarehouseInvariants, TLC

Symmetry == Permutations(Sessions) \cup Permutations(Outbounds)
            \cup Permutations(Inbounds) \cup Permutations(Defectives)
            \cup Permutations(Notices)

\* All receipts are for one QC record.
OneRecord  == [d \in Receipts |-> CHOOSE q \in QcRecords : TRUE]

\* The warehouse receives what quality control passed.
Stocking == {"createReceipt", "postReceipt"}
Noticing == Stocking \cup {"createNotices", "createOutboundFromNotice", "postOutbound"}

\* Every request that takes the production-order lock before it takes stock
\* or changes what a notice has shipped.
OrderLocked == Noticing \cup {"createOutbound", "updateShipping", "signOutbound",
                   "reverseOutbound", "abort"}

\* ... and the one that closes a notice without any lock.
Shipping == OrderLocked \cup {"cancelNotice"}

\* Every request the warehouse and finance serve.
Everything == OrderLocked \cup {"reverseReceipt", "cancelNotice", "cancelOutbound",
                  "confirm", "cancelReceivable",
                  "createReturn", "postReturn", "reverseReturn", "reopen"}

\* Requests that wait for each other's locks.
Contending == Noticing \cup {"createOutbound", "cancelOutbound", "reverseOutbound",
                  "cancelNotice", "reverseReceipt"}
=============================================================================
