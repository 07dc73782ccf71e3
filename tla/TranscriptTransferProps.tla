---------------------- MODULE TranscriptTransferProps -----------------------
(***************************************************************************)
(* What the transfer of transcripts must satisfy.                          *)
(***************************************************************************)
EXTENDS TranscriptTransfer

\* Whatever fails or overlaps, an importer that reads the manifest at any moment finds
\* every page it refers to ("it reads either the old complete manifest or the new one").
ManifestComplete == manifest \subseteq objects

\* What a row or a version says, and when the publisher said it.
Says(r) == [modified |-> r.modified, content |-> r.content]

\* A receipt is never held for what is not there: each post of a page with a receipt has
\* a row, which says what the page said or something the publisher said no earlier.  Of
\* two versions saved within a second the row may say either, and so another than the
\* page (transcript-upsert.ts:13 refuses only what is older).
ReceiptsHonest ==
  \A b \in receipts, p \in Posts : b[p] # None =>
    /\ row[p] # None
    /\ row[p].modified >= b[p].modified
    /\ Says(row[p]) \in said[p]

\* In whatever order pages are uploaded, imported, replayed and polled, a row only moves
\* to a version the publisher really served, and never to one it stamped earlier
\* ("older versions cannot revert newer text"), or goes with all rows and receipts.
\* Among versions saved within one second the stamp tells no order, and a row may go
\* back from the later to the earlier.
NothingReverts ==
  [][\A p \in Posts : row'[p] # row[p] =>
       \/ row' = NoRows /\ receipts' = {}
       \/ /\ Says(row'[p]) \in said[p]
          /\ row[p] = None \/ row[p].modified <= row'[p].modified]_vars

\* Once the publisher, the laptop and the failures come to rest, every page on record
\* has been imported.
TransferConverges == <>[](fetched \subseteq receipts)
=============================================================================
