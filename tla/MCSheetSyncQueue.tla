-------------------------- MODULE MCSheetSyncQueue --------------------------
(***************************************************************************)
(* Instances of SheetSyncQueue for TLC.                                    *)
(***************************************************************************)
EXTENDS SheetSyncQueue, TLC

\* Requests are interchangeable, and so are workers and connections: no
\* definition names one or orders them.  Used in safety runs only.
ActorSymmetry == Permutations(Handlers) \union Permutations(Workers)
                     \union Permutations(Connections)
=============================================================================
