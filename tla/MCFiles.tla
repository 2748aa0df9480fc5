------------------------------- MODULE MCFiles -------------------------------
(* For TLC, two parts that share only the payload tree and follow one       *)
(* another: the migration of a directory as it is opened, and the payload   *)
(* files of a store that serves.  Each is explored while the other rests.   *)
EXTENDS Payloads, Migration

ASSUME NoneIsNoContent == None \notin Contents

Older == INSTANCE OlderStores

MCStores == Older!MCStores

\* The six directories are among those the theorem about the opening speaks of.
ASSUME OlderStoresAreWhole == OldStoresAreWhole

payloads == vars
places == openingVars

FilesInit ==
    /\ Init
    /\ \/ OpeningInit
       \/ /\ disk = [p \in {0} |-> Older!Nothing] /\ durable = disk /\ originals = disk
          /\ phase = "elsewhere" /\ place = 0 /\ rewrote = FALSE
          /\ named = {} /\ rotten = {} /\ killed = FALSE /\ faults = 0

FilesNext ==
    \/ phase # "elsewhere" /\ OpeningNext /\ UNCHANGED payloads
    \/ phase = "elsewhere" /\ Next /\ UNCHANGED places

FilesSpec ==
    /\ FilesInit /\ [][FilesNext]_<<payloads, places>>
    /\ WF_places(phase # "elsewhere" /\ OpeningStep /\ UNCHANGED payloads)
    /\ WF_payloads(phase = "elsewhere" /\ Sweep /\ UNCHANGED places)
    /\ WF_payloads(phase = "elsewhere" /\ (Publish \/ Evict) /\ UNCHANGED places)
    /\ \A p \in Clients : WF_payloads(phase = "elsewhere" /\ Finish(p) /\ UNCHANGED places)
    /\ WF_payloads(phase = "elsewhere" /\ Tick /\ UNCHANGED places)
=============================================================================
