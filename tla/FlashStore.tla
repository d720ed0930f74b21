------------------------------ MODULE FlashStore ------------------------------
(***************************************************************************)
(* What the flash commands promise.  A store of pages, and runs that each  *)
(* claim some pages, change those and no others, and may then confirm that *)
(* the store holds what was asked.  A run that gives up, is killed or      *)
(* loses the stick confirms nothing and may leave pages loose: they still  *)
(* change until they settle, and no other run gets its claim before.       *)
(***************************************************************************)
CONSTANTS
    Locations, Values,
    Requests        \* records: foot, the pages claimed; want, pairs of a page
                    \* and what it must hold

\* A request wants nothing of a page that it does not claim.
RequestsFit ==
    \A r \in Requests :
        /\ r.foot \subseteq Locations
        /\ r.want \subseteq r.foot \X Values

VARIABLES
    store,          \* what each page holds
    loose,          \* the pages that may still change
    confirmed       \* the request the last run confirmed, as a set

storeVars == <<store, loose, confirmed>>

StoreInit ==
    /\ store \in [Locations -> Values]
    /\ loose = {}
    /\ confirmed = {}

Claim(r) ==
    /\ loose = {}
    /\ loose' = r.foot
    /\ confirmed' = {}
    /\ UNCHANGED store

\* pages that are loose change, or settle; a confirmation may be forgotten
Change ==
    /\ store' \in [Locations -> Values]
    /\ \A p \in Locations \ loose : store'[p] = store[p]
    /\ loose' \in SUBSET loose
    /\ confirmed' \in SUBSET confirmed

Holds(r) == \A w \in r.want : store[w[1]] = w[2]

Confirm(r) ==
    /\ loose = r.foot
    /\ Holds(r)
    /\ loose' = {}
    /\ confirmed' = {r}
    /\ UNCHANGED store

StoreNext == \/ \E r \in Requests : Claim(r) \/ Confirm(r)
        \/ Change

StoreSpec == StoreInit /\ [][StoreNext]_storeVars

-----------------------------------------------------------------------------
StoreTypeOK ==
    /\ store \in [Locations -> Values]
    /\ loose \subseteq Locations
    /\ confirmed \subseteq Requests

(***************************************************************************)
(* What was confirmed stays in the store until another run begins: main's  *)
(* "Ok." after -f, -W or -e is still true when the next run starts.        *)
(***************************************************************************)
ConfirmedHolds == \A r \in confirmed : Holds(r)
=============================================================================
