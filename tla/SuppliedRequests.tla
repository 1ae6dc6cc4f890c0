---------------------------- MODULE SuppliedRequests ----------------------------
(***************************************************************************)
(* IngestController with what its requests are made from.  What Intake     *)
(* promises depends on no variable of the controller: it is stated of the  *)
(* initial states, where TLC evaluates it once.                            *)
(***************************************************************************)
EXTENDS IngestController

CONSTANTS
  Packages, Beside, Nfc, Key, ExtOf, Hidden, Requests,     \* of Intake
  MaxEntries, MaxRequest, MaxFile, MaxImage, MaxTotal, MaxArchive, MaxContent

Intake == INSTANCE Intake

\* A package is a list of entries, whose paths are lists of segments; to compose
\* a segment that is composed changes nothing.
ASSUME PackageConstants ==
  /\ \A s \in DOMAIN Nfc : Nfc[s] \in DOMAIN Nfc /\ Nfc[Nfc[s]] = Nfc[s]
  /\ \A package \in Packages :
       LET entries == package.entries
       IN /\ entries \in Seq({entries[n] : n \in DOMAIN entries})
          /\ \A n \in DOMAIN entries : entries[n].path \in Seq(DOMAIN Nfc)

\* A person supplies a page in whatever form and the process may die at any
\* step: the request has every file the page leads to, under a hash of its own
\* and a path no other can take, nothing that looks like a credential is kept
\* of a page, and a request is never stored before all that it was made from
\* (importers/, receiveRequest of controller.ts).
RequestIsSupplied == Init => Intake!RequestIsSupplied
=============================================================================
