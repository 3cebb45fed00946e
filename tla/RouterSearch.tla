---------------------------- MODULE RouterSearch ----------------------------
(***************************************************************************)
(* A search over both stores: Router.Search (memory/router.go) asks the    *)
(* persistent memories through HybridSearch and then the working memories  *)
(* through ValkeyStore.Search (memory/valkey_store.go), which SCANs the    *)
(* keys and GETs each of them, while other clients store and delete.       *)
(*                                                                         *)
(* A key is "hit" when the loop over it would accept it as it is now, and  *)
(* "miss" when it would pass it over: an index or latest key, a name that  *)
(* looks like one, another namespace, other content.  SCAN is Valkey's: it *)
(* returns every key that is there from its first call to its last, and of *)
(* the others any, any of them more than once.                             *)
(***************************************************************************)
EXTENDS HybridSearch

CONSTANTS
  Keys,       \* keys of Valkey
  MaxChanges  \* bound: keys written or deleted while SCAN is under way

ASSUME RouterSearchAssumption == MaxChanges \in Nat

VARIABLES
  data,    \* by key, "none", "miss" or "hit"; "none" until working memories are searched
  router,  \* the search, as the router sees it
  scan     \* ValkeyStore.Search

routerVars == <<vars, data, router, scan>>

Stores == {"persistent", "working"}

\* History fields: "missed", the memories that an unfiltered search from the start
\* could have found all along and that its page leaves out; "owed", the keys
\* there since SCAN began and not returned yet; "ever" and "always", the keys that
\* were a hit at some, at every moment since; "lost", those whose GET failed.
NoRoute == [pc |-> "idle", stores |-> {}, limit |-> 1, total |-> 0, missed |-> {}]
NoScan == [batch |-> {}, last |-> FALSE, hits |-> {}, n |-> 0, changes |-> 0,
           owed |-> {}, ever |-> {}, always |-> {}, lost |-> {}]

RouterInit ==
  /\ Init
  /\ data = [k \in Keys |-> "none"]
  /\ router = NoRoute
  /\ scan = NoScan

Live(d) == {k \in Keys : d[k] # "none"}
Hits(d) == {k \in Keys : d[k] = "hit"}

-----------------------------------------------------------------------------
(* The router.                                                             *)

\* The types asked for say which stores to ask; all types, if none are named.
Route(stores, limit, offset) ==
  /\ router.pc = "idle"
  /\ router' = [NoRoute EXCEPT !.stores = stores, !.limit = limit,
                               !.pc = IF "persistent" \in stores THEN "persistent" ELSE "working"]
  /\ IF "persistent" \in stores THEN Search(limit, offset) ELSE UNCHANGED vars
  /\ UNCHANGED <<data, scan>>

\* Faulty variant: the totals replace each other.
JoinedReplaced(total, more) == more

Joined(total, more) == total + more

\* The hybrid search has answered.  If the working memories are asked for, too, it
\* is their turn.
TakePersistent ==
  /\ router.pc = "persistent"
  /\ search.pc = "done"
  /\ router' = [router EXCEPT
       !.pc = IF "working" \in router.stores THEN "working" ELSE "done",
       !.total = Joined(@, Len(Filtered)),
       !.missed = IF search.kept = Memories /\ search.offset = 0
                  THEN (UNION {search.always[q] : q \in Queries}) \ InList(search.page)
                  ELSE {}]
  /\ search' = NoSearch /\ found' = NotFound /\ writes' = 0
  /\ UNCHANGED <<data, scan>>

\* An error of either store is the answer.
FailPersistent ==
  /\ router.pc = "persistent"
  /\ search.pc = "failed"
  /\ router' = [router EXCEPT !.pc = "failed"]
  /\ UNCHANGED <<vars, data, scan>>

-----------------------------------------------------------------------------
(* ValkeyStore.Search.                                                     *)

\* The search of working memories begins, and finds Valkey in some state.
BeginScan ==
  /\ router.pc = "working"
  /\ data' \in [Keys -> {"none", "miss", "hit"}]
  /\ scan' = [NoScan EXCEPT !.owed = Live(data'), !.ever = Hits(data'), !.always = Hits(data')]
  /\ router' = [router EXCEPT !.pc = "scan"]
  /\ UNCHANGED vars

\* One SCAN call.  The cursor comes back as 0 only when nothing is owed any more.
\* What is live is what the MATCH pattern lets through.  The namespace goes into it
\* unescaped, so if it has glob characters (* ? [ ] \), keys that the loop would
\* accept may be filtered out by SCAN: for this search they do not exist.
ScanBatch ==
  /\ router.pc = "scan"
  /\ \E batch \in SUBSET Live(data), last \in BOOLEAN :
       /\ last => scan.owed \subseteq batch
       /\ scan' = [scan EXCEPT !.batch = batch, !.last = last, !.owed = @ \ batch]
  /\ router' = [router EXCEPT !.pc = "get"]
  /\ UNCHANGED <<vars, data>>

ScanFails ==
  /\ router.pc = "scan"
  /\ router' = [router EXCEPT !.pc = "failed"]
  /\ UNCHANGED <<vars, data, scan>>

\* Faulty variant: a key that is gone ends the batch.
GetKeyStops(k) ==
  /\ router.pc = "get"
  /\ k \in scan.batch
  /\ scan.n < router.limit
  /\ scan' = IF data[k] = "hit"
             THEN [scan EXCEPT !.batch = @ \ {k}, !.hits = @ \cup {k}, !.n = @ + 1]
             ELSE [scan EXCEPT !.batch = IF data[k] = "none" THEN {} ELSE @ \ {k}]
  /\ UNCHANGED <<vars, data, router>>

\* The next key of the batch; one that is gone by now, or passed over, is skipped.
GetKey(k) ==
  /\ router.pc = "get"
  /\ k \in scan.batch
  /\ scan.n < router.limit
  /\ scan' = IF data[k] = "hit"
             THEN [scan EXCEPT !.batch = @ \ {k}, !.hits = @ \cup {k}, !.n = @ + 1]
             ELSE [scan EXCEPT !.batch = @ \ {k}]
  /\ UNCHANGED <<vars, data, router>>

\* A GET that fails is skipped as well.
GetFails(k) ==
  /\ router.pc = "get"
  /\ k \in scan.batch
  /\ scan.n < router.limit
  /\ scan' = [scan EXCEPT !.batch = @ \ {k}, !.lost = @ \cup {k}]
  /\ UNCHANGED <<vars, data, router>>

\* The end of a batch, and of the search when the cursor is 0 or there are enough.
EndBatch ==
  /\ router.pc = "get"
  /\ scan.batch = {} \/ scan.n >= router.limit
  /\ router' = IF scan.last \/ scan.n >= router.limit
               THEN [router EXCEPT !.pc = "done", !.total = Joined(@, scan.n)]
               ELSE [router EXCEPT !.pc = "scan"]
  /\ UNCHANGED <<vars, data, scan>>

\* Another client stores or deletes a key, or it expires.
Change(k, v) ==
  /\ router.pc \in {"scan", "get"}
  /\ data[k] # v
  /\ scan.changes < MaxChanges
  /\ data' = [data EXCEPT ![k] = v]
  /\ scan' = [scan EXCEPT !.changes = @ + 1,
                          !.owed = @ \cap Live(data'),
                          !.ever = @ \cup Hits(data'),
                          !.always = @ \cap Hits(data')]
  /\ UNCHANGED <<vars, router>>

-----------------------------------------------------------------------------

\* The steps of HybridSearch, of which the router starts the first.
Persistent ==
  /\ router.pc = "persistent"
  /\ \/ SemanticSearch \/ KeywordSearch \/ Answer \/ Fail
     \/ \E m \in Memories, by \in SUBSET Queries : Write(m, by)
  /\ UNCHANGED <<data, router, scan>>

RouterNext ==
  \/ \E stores \in SUBSET Stores \ {{}}, limit \in Limits, offset \in Offsets :
       Route(stores, limit, offset)
  \/ Persistent \/ TakePersistent \/ FailPersistent
  \/ BeginScan \/ ScanBatch \/ ScanFails \/ EndBatch
  \/ \E k \in Keys : GetKey(k) \/ GetFails(k)
  \/ \E k \in Keys, v \in {"none", "miss", "hit"} : Change(k, v)

RouterSpec == RouterInit /\ [][RouterNext]_routerVars

-----------------------------------------------------------------------------
(* Properties.                                                             *)

Answered == router.pc = "done"
Asked(store) == store \in router.stores
Overlooked == scan.always \ (scan.hits \cup scan.lost)

\* What a search of working memories gives when keys come and go between SCAN and
\* GET (valkey_store.go:122-160): nothing that was not a hit while it ran, no more
\* than the limit, and, if it comes short of the limit, all that was a hit
\* throughout, within the pattern of the SCAN, and that Valkey could be asked for.
WorkingSearchIsHonest ==
  Answered /\ Asked("working") =>
    /\ scan.hits \subseteq scan.ever
    /\ scan.n =< router.limit
    /\ scan.n < router.limit => Overlooked = {}

\* A total below the limit means that the answer is complete (router.go:141-168),
\* although one store counts what it found beyond the page (search.go:59) and the
\* other what it returned (valkey_store.go:166), each at a moment of its own: what
\* an unfiltered search from the start could have found all along is there.
SmallTotalsAreComplete ==
  Answered /\ router.total < router.limit =>
    router.missed = {} /\ (Asked("working") => Overlooked = {})
=============================================================================
