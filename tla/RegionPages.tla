---------------------------- MODULE RegionPages -----------------------------
(***************************************************************************)
(* Regions and the pages they are made of: src/src/pages.c, alloc.c and    *)
(* regions.c.  Each task has a region, in which its children's descriptors *)
(* and the metadata of their arguments are allocated; it is created with   *)
(* the task, used by the thread that runs the task, and deleted by the one *)
(* that releases it.  Free pages are on MAXLISTS lists with a spin lock    *)
(* each, and every operation uses a list chosen at random.                 *)
(*                                                                         *)
(* Objects are abstracted to what the deletion of a region may read: the   *)
(* header of a region lies in its first page, and the deletion reads it    *)
(* again after that page was freed.  The source does not say what follows  *)
(* when that read finds an object of another region: there the model ends. *)
(* Objects are at most 4096 bytes long, or fit into the current page, so   *)
(* that alloc_pages is not called: this holds of all but the descriptors   *)
(* of tasks with some hundred arguments.                                   *)
(***************************************************************************)
EXTENDS Naturals, Sequences, SequencesExt, FiniteSets

CONSTANTS
  Threads,      \* the threads of the runtime
  Regions,      \* the lives of regions: each is created and deleted once
  Lists,        \* 0 .. MAXLISTS - 1
  MaxPages,     \* bound: pages of a region
  MaxObtained,  \* bound: pages that malloc returns
  Groups,       \* values of PAGE_GROUP_SIZE, which grows with the program
  None

ASSUME RegionAssumption ==
  /\ Lists # {}
  /\ MaxPages \in Nat \ {0} /\ MaxObtained \in Nat
  /\ Groups \subseteq Nat \ {0}
  /\ None \notin Threads \cup Regions \cup Lists \cup Nat

Pages == 1 .. MaxObtained

VARIABLES
  list,       \* single_pages[l].pages
  page_count, \* single_pages[l].page_count
  lock,       \* single_pages[l].lock: the thread that holds it
  obtained,   \* pages that malloc returned so far: 1 .. obtained
  life,       \* of each region: "none", "live" or "deleted"
  pages,      \* normal.pages of each region, the one with its header last
  word,       \* the page that an object in this page points to, at the place
              \* where a header has bigpages or parent; None in a header
  pc, r,      \* of each thread: its next step, the region it works on,
  list_id,    \* the list it locked, in its variable list_id,
  chain,      \* the value it will store in single_pages[list_id].pages,
  rest,       \* the pages it still has to free,
  header,     \* the page the header of the region it deletes lies in
  stale       \* history: a deletion took an object of another region for its
              \* own header

vars == <<list, page_count, lock, obtained, life, pages, word,
          pc, r, list_id, chain, rest, header, stale>>

Init ==
  /\ list = [l \in Lists |-> <<>>]
  /\ page_count = [l \in Lists |-> 0]
  /\ lock = [l \in Lists |-> None]
  /\ obtained = 0
  /\ life = [x \in Regions |-> "none"]
  /\ pages = [x \in Regions |-> <<>>]
  /\ word = [p \in Pages |-> None]
  /\ pc = [t \in Threads |-> "idle"]
  /\ r = [t \in Threads |-> None]
  /\ list_id = [t \in Threads |-> None]
  /\ chain = [t \in Threads |-> <<>>]
  /\ rest = [t \in Threads |-> <<>>]
  /\ header = [t \in Threads |-> None]
  /\ stale = FALSE

Goto(t, step) == pc' = [pc EXCEPT ![t] = step]

\* The runtime uses a region from one thread at a time: the creator's, then
\* that of the task, then the one that releases it (TaskLife).
Unused(x) == \A t \in Threads : r[t] # x

-----------------------------------------------------------------------------
(* The operations of regions *)

\* newregion: the page it takes becomes its first.
NewRegion(t, x) ==
  /\ pc[t] = "idle" /\ life[x] = "none" /\ Unused(x)
  /\ r' = [r EXCEPT ![t] = x]
  /\ Goto(t, "take")
  /\ UNCHANGED <<list, page_count, lock, obtained, life, pages, word, list_id,
                 chain, rest, header, stale>>

\* An object that does not fit into the current page: alloc_block takes one.
Grow(t, x) ==
  /\ pc[t] = "idle" /\ life[x] = "live" /\ Unused(x)
  /\ Len(pages[x]) < MaxPages
  /\ r' = [r EXCEPT ![t] = x]
  /\ Goto(t, "take")
  /\ UNCHANGED <<list, page_count, lock, obtained, life, pages, word, list_id,
                 chain, rest, header, stale>>

\* Variant: the region keeps its pages.
DeleteRegionKept(t, x) ==
  /\ pc[t] = "idle" /\ life[x] = "live" /\ Unused(x)
  /\ r' = [r EXCEPT ![t] = x]
  /\ life' = [life EXCEPT ![x] = "deleted"]
  /\ rest' = [rest EXCEPT ![t] = pages[x]]
  /\ header' = [header EXCEPT ![t] = Last(pages[x])]
  /\ Goto(t, "give")
  /\ UNCHANGED <<list, page_count, lock, obtained, pages, word, list_id, chain,
                 stale>>

\* deleteregion, up to the loop of free_all_pages, which reads the link of a
\* page before it frees the page.
DeleteRegion(t, x) ==
  /\ pc[t] = "idle" /\ life[x] = "live" /\ Unused(x)
  /\ r' = [r EXCEPT ![t] = x]
  /\ life' = [life EXCEPT ![x] = "deleted"]
  /\ pages' = [pages EXCEPT ![x] = <<>>]
  /\ rest' = [rest EXCEPT ![t] = pages[x]]
  /\ header' = [header EXCEPT ![t] = Last(pages[x])]
  /\ Goto(t, "give")
  /\ UNCHANGED <<list, page_count, lock, obtained, word, list_id, chain, stale>>

-----------------------------------------------------------------------------
(* The lists of pages *)

\* Variant: does not look at what the exchange returned.
TryLockUntested(t, l) ==
  /\ pc[t] \in {"take", "give"}
  /\ lock' = [lock EXCEPT ![l] = t]
  /\ list_id' = [list_id EXCEPT ![t] = l]
  /\ Goto(t, IF pc[t] = "take" THEN "alloc" ELSE "free")
  /\ UNCHANGED <<list, page_count, obtained, life, pages, word, r, chain,
                 rest, header, stale>>

\* try_lock on a list chosen at random; one that fails is tried again with
\* another list.
TryLock(t, l) ==
  /\ pc[t] \in {"take", "give"}
  /\ lock[l] = None
  /\ lock' = [lock EXCEPT ![l] = t]
  /\ list_id' = [list_id EXCEPT ![t] = l]
  /\ Goto(t, IF pc[t] = "take" THEN "alloc" ELSE "free")
  /\ UNCHANGED <<list, page_count, obtained, life, pages, word, r, chain,
                 rest, header, stale>>

\* alloc_new and add_single_pages: n pages with ascending addresses, each put
\* in front of the one below.  Of the larger block that region_get_mem takes
\* from malloc, alloc_split keeps a part that nobody uses.
Refill(t, n) ==
  LET l == list_id[t] IN
    /\ pc[t] = "alloc"
    /\ page_count[l] = 0
    /\ obtained + n <= MaxObtained
    /\ list' = [list EXCEPT ![l] = [i \in 1..n |-> obtained + n + 1 - i] \o @]
    /\ page_count' = [page_count EXCEPT ![l] = @ + n]
    /\ obtained' = obtained + n
    /\ UNCHANGED <<lock, life, pages, word, pc, r, list_id, chain, rest, header,
                   stale>>

\* alloc_single_page reads the first page and its link,
LoadFirst(t) ==
  /\ pc[t] = "alloc"
  /\ page_count[list_id[t]] > 0
  /\ chain' = [chain EXCEPT ![t] = list[list_id[t]]]
  /\ Goto(t, "unlink")
  /\ UNCHANGED <<list, page_count, lock, obtained, life, pages, word, r,
                 list_id, rest, header, stale>>

\* Variant: leaves the lock on a list that it emptied.
AllocSinglePageLocked(t) ==
  LET l == list_id[t]
      p == Head(chain[t]) IN
    /\ pc[t] = "unlink"
    /\ list' = [list EXCEPT ![l] = Tail(chain[t])]
    /\ page_count' = [page_count EXCEPT ![l] = @ - 1]
    /\ lock' = [lock EXCEPT ![l] = IF page_count[l] = 1 THEN @ ELSE None]
    /\ pages' = [pages EXCEPT ![r[t]] = <<p>> \o @]
    /\ life' = [life EXCEPT ![r[t]] = "live"]
    /\ word' = [word EXCEPT ![p] = None]
    /\ r' = [r EXCEPT ![t] = None]
    /\ list_id' = [list_id EXCEPT ![t] = None]
    /\ chain' = [chain EXCEPT ![t] = <<>>]
    /\ Goto(t, "idle")
    /\ UNCHANGED <<obtained, rest, header, stale>>

\* takes the page off the list, and the caller uses it: a new header is
\* cleared, any other page is cleared and then holds objects, which may point
\* to others of their region.
AllocSinglePage(t) ==
  LET l == list_id[t]
      p == Head(chain[t])
      targets == IF life[r[t]] = "live" THEN ToSet(pages[r[t]]) ELSE {}
  IN
    /\ pc[t] = "unlink"
    /\ list' = [list EXCEPT ![l] = Tail(chain[t])]
    /\ page_count' = [page_count EXCEPT ![l] = @ - 1]
    /\ lock' = [lock EXCEPT ![l] = None]
    /\ pages' = [pages EXCEPT ![r[t]] = <<p>> \o @]
    /\ life' = [life EXCEPT ![r[t]] = "live"]
    /\ \E q \in targets \cup {None} : word' = [word EXCEPT ![p] = q]
    /\ r' = [r EXCEPT ![t] = None]
    /\ list_id' = [list_id EXCEPT ![t] = None]
    /\ chain' = [chain EXCEPT ![t] = <<>>]
    /\ Goto(t, "idle")
    /\ UNCHANGED <<obtained, rest, header, stale>>

\* free_single_page links the page to the first of the list,
LinkPage(t) ==
  /\ pc[t] = "free"
  /\ chain' = [chain EXCEPT ![t] = <<Head(rest[t])>> \o list[list_id[t]]]
  /\ rest' = [rest EXCEPT ![t] = Tail(@)]
  /\ Goto(t, "link")
  /\ UNCHANGED <<list, page_count, lock, obtained, life, pages, word, r,
                 list_id, header, stale>>

\* Variant: does not count the page.
FreeSinglePageUncounted(t) ==
  LET l == list_id[t] IN
    /\ pc[t] = "link"
    /\ list' = [list EXCEPT ![l] = chain[t]]
    /\ lock' = [lock EXCEPT ![l] = None]
    /\ list_id' = [list_id EXCEPT ![t] = None]
    /\ chain' = [chain EXCEPT ![t] = <<>>]
    /\ Goto(t, IF rest[t] = <<>> THEN "bigpages" ELSE "give")
    /\ UNCHANGED <<page_count, obtained, life, pages, word, r, rest, header,
                   stale>>

\* and makes it the first.
FreeSinglePage(t) ==
  LET l == list_id[t] IN
    /\ pc[t] = "link"
    /\ list' = [list EXCEPT ![l] = chain[t]]
    /\ page_count' = [page_count EXCEPT ![l] = @ + 1]
    /\ lock' = [lock EXCEPT ![l] = None]
    /\ list_id' = [list_id EXCEPT ![t] = None]
    /\ chain' = [chain EXCEPT ![t] = <<>>]
    /\ Goto(t, IF rest[t] = <<>> THEN "bigpages" ELSE "give")
    /\ UNCHANGED <<obtained, life, pages, word, r, rest, header, stale>>

\* What the deletion may find where its header was, in a page that is on a free
\* list now: the NULL it left there, as no region of the runtime has big pages
\* or a parent, or, once the page was taken again, a pointer of an object.
Found(t) == {None, word[header[t]]}

\* free_all_pages reads a->bigpages.  A pointer found there is given to
\* free_pages as if it were a page.
LoadBigPages(t) ==
  /\ pc[t] = "bigpages"
  /\ \E q \in Found(t) :
       /\ stale' = (q # None)
       /\ rest' = [rest EXCEPT ![t] = IF q = None THEN <<>> ELSE <<q>>]
       /\ Goto(t, IF q = None THEN "parent" ELSE "give")
  /\ UNCHANGED <<list, page_count, lock, obtained, life, pages, word, r, list_id,
                 chain, header>>

\* Back in __deleteregion, r->parent: a pointer found there is given to
\* release_spinlock as if it were a region.
LoadParent(t) ==
  /\ pc[t] = "parent"
  /\ \E q \in Found(t) : stale' = (q # None)
  /\ r' = [r EXCEPT ![t] = None]
  /\ header' = [header EXCEPT ![t] = None]
  /\ Goto(t, "idle")
  /\ UNCHANGED <<list, page_count, lock, obtained, life, pages, word, list_id,
                 chain, rest>>

-----------------------------------------------------------------------------
Done ==
  /\ \/ stale
     \/ /\ \A x \in Regions : life[x] = "deleted"
        /\ \A t \in Threads : pc[t] = "idle"
  /\ UNCHANGED vars

Begin(t) ==
  /\ ~stale
  /\ \E x \in Regions : NewRegion(t, x) \/ Grow(t, x) \/ DeleteRegion(t, x)

Proceed(t) ==
  /\ ~stale
  /\ \/ LoadFirst(t) \/ AllocSinglePage(t)
     \/ LinkPage(t) \/ FreeSinglePage(t)
     \/ LoadBigPages(t) \/ LoadParent(t)
     \/ \E n \in Groups : Refill(t, n)

FindList(t) == ~stale /\ \E l \in Lists : TryLock(t, l)

Next ==
  \/ \E t \in Threads : Begin(t) \/ Proceed(t) \/ FindList(t)
  \/ Done

\* A thread that holds a lock goes on; one that tries the lists again and again
\* comes upon one that is not locked.
Fairness == \A t \in Threads : WF_vars(Proceed(t)) /\ SF_vars(FindList(t))

Spec == Init /\ [][Next]_vars /\ Fairness

-----------------------------------------------------------------------------
(* Properties *)

TypeOK ==
  /\ list \in [Lists -> Seq(Pages)]
  /\ page_count \in [Lists -> 0..MaxObtained]
  /\ lock \in [Lists -> Threads \cup {None}]
  /\ obtained \in 0..MaxObtained
  /\ life \in [Regions -> {"none", "live", "deleted"}]
  /\ pages \in [Regions -> Seq(Pages)]
  /\ \A x \in Regions :
       /\ Len(pages[x]) <= MaxPages
       /\ life[x] = "live" <=> pages[x] # <<>>
  /\ word \in [Pages -> Pages \cup {None}]
  /\ pc \in [Threads -> {"idle", "take", "alloc", "unlink", "give", "free",
                         "link", "bigpages", "parent"}]
  /\ r \in [Threads -> Regions \cup {None}]
  /\ list_id \in [Threads -> Lists \cup {None}]
  /\ chain \in [Threads -> Seq(Pages)]
  /\ rest \in [Threads -> Seq(Pages)]
  /\ header \in [Threads -> Pages \cup {None}]
  /\ stale \in BOOLEAN

\* The places where page p is: on a list, in a region, or in the hands of a
\* thread that deletes one, up to the store that puts it on a list.
At(h, s, p) == h[2] \in DOMAIN s /\ s[h[2]] = p
Homes(p) ==
  {h \in Lists \X Pages : At(h, list[h[1]], p)} \cup
  {h \in Regions \X Pages : At(h, pages[h[1]], p)} \cup
  {h \in Threads \X Pages : At(h, rest[h[1]], p)} \cup
  {<<t, 0>> : t \in {u \in Threads : pc[u] = "link" /\ Head(chain[u]) = p}}

\* Every page the program obtained is in one place: no two regions share one,
\* none is free while a region uses it, and none is lost.  "Assumes
\* freepages_lock held" (alloc.c:170, pages.c:388, 484) is what the deletion
\* relies on for it, and no caller holds that lock: it fails, as the deletion
\* may go on to free what an object of another region points to.
OneHome == \A p \in 1..obtained : Cardinality(Homes(p)) = 1

\* Up to such a read the lists, the regions and the deletions share the pages
\* out: try_lock alone keeps two threads from taking, or losing, a page
\* (pages.c:463-480, 491-497).
OneHomeUntilStale == ~stale => OneHome

\* The counter of a list that nobody works on is its length, so a thread that
\* reads a counter above zero finds a page (pages.c:466-475).
CountsAgree == \A l \in Lists : lock[l] = None => page_count[l] = Len(list[l])

\* Whatever lists they try, all operations end and none leaves a lock behind
\* (pages.c:463-464, 480, 491-492, 497), unless a deletion is misled.
CallsReturn == \A t \in Threads : pc[t] # "idle" ~> pc[t] = "idle" \/ stale
=============================================================================
