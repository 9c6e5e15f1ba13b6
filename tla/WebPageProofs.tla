---------------------------- MODULE WebPageProofs ----------------------------
(***************************************************************************)
(* Theorems about what clients see of a workspace's stock, in the          *)
(* composition of all that works on it: the count of the report's banner,  *)
(* the selection and the rows of the inventory list, and a list that is    *)
(* read page by page.                                                      *)
(***************************************************************************)
EXTENDS Catalogue, FiniteSetTheorems, TLAPS

-----------------------------------------------------------------------------
(* The report page.                                                        *)

Sent == {q \in Posts : posts[q] # Unsent}
Post == [disc : Discs, answer : Answers, served : BOOLEAN, orphan : BOOLEAN]
States == Answers \cup {"absent", "pending"}

PageTypes ==
    /\ resolution \in [Discs -> States] /\ current \in [Discs -> States]
    /\ busy \in [Discs -> BOOLEAN] /\ initial \in Nat /\ extra \in Nat
    /\ DOMAIN posts = Posts /\ \A q \in Sent : posts[q] \in Post

\* A request is for a discrepancy that the page shows as pending and busy, and no
\* two are for the same one: no click is counted twice.
PostsApart ==
    /\ \A q \in Sent : /\ busy[posts[q].disc] /\ current[posts[q].disc] = "pending"
                       /\ ~posts[q].orphan
    /\ \A q, p \in Sent : q # p => posts[q].disc # posts[p].disc
    /\ \A q \in Sent : posts[q].served => resolution[posts[q].disc] \in Answers

\* The page is behind the server, never ahead of it.
PageBehind ==
    \A d \in Discs : /\ current[d] \in Answers => resolution[d] \in Answers
                     /\ current[d] # "absent" => resolution[d] # "absent"

\* What was counted is what has become of the rows that were pending.
CountKept == initial = Cardinality(Pending(current)) + extra

\* Once the count is of another report only the types are left.
OwnCount == PostsApart /\ PageBehind /\ CountKept
BannerInv == PageTypes /\ (carried \/ OwnCount)

LEMMA PendingFinite ==
    ASSUME NEW rows2
    PROVE  /\ IsFiniteSet(Pending(rows2))
           /\ Cardinality(Pending(rows2)) \in Nat
<1>1. Pending(rows2) \subseteq Discs /\ IsFiniteSet(Discs)
  BY ReportPageAssumption DEF Pending
<1> QED BY <1>1, FS_Subset, FS_CardinalityType

LEMMA BannerInit == ASSUME ReportPageInit PROVE BannerInv
<1>1. Sent = {}
  BY DEF ReportPageInit, Sent
<1>2. PageTypes
  BY <1>1, PendingFinite DEF ReportPageInit, PageTypes, States
<1>3. PostsApart
  BY <1>1 DEF PostsApart
<1>4. PageBehind
  BY DEF ReportPageInit, PageBehind
<1>5. CountKept
  BY PendingFinite DEF ReportPageInit, CountKept
<1> QED BY <1>2, <1>3, <1>4, <1>5 DEF BannerInv, OwnCount

LEMMA ReopenInv == ASSUME BannerInv, Reopen PROVE BannerInv'
<1>1. Sent' = {}
  BY DEF Reopen, Sent
<1>2. Listed \in [Discs -> States] /\ initial' \in Nat
  BY PendingFinite DEF Reopen, BannerInv, PageTypes, Listed, States
<1>3. PageTypes'
  BY <1>1, <1>2 DEF Reopen, BannerInv, PageTypes
<1>4. PostsApart'
  BY <1>1 DEF PostsApart
<1>5. PageBehind'
  BY ReportPageAssumption DEF Reopen, PageBehind, Listed
<1>6. CountKept'
  <2>1. Pending(current)' = Pending(Listed)
    BY DEF Reopen, Pending
  <2>2. Cardinality(Pending(Listed)) \in Nat
    BY PendingFinite
  <2> QED BY <2>1, <2>2 DEF Reopen, CountKept
<1> QED BY <1>3, <1>4, <1>5, <1>6 DEF BannerInv, OwnCount

LEMMA ShowAnotherInv == ASSUME BannerInv, ShowAnother PROVE BannerInv'
<1>1. resolution' \in [Discs -> States] /\ initial' \in Nat
  BY PendingFinite DEF ShowAnother, States
<1>2. DOMAIN posts' = Posts /\ \A q \in Sent' : posts'[q] \in Post
  <2> SUFFICES ASSUME NEW q \in Posts, posts'[q] # Unsent PROVE posts'[q] \in Post
    BY DEF ShowAnother, Sent
  <2>1. q \in Sent /\ posts[q] \in Post /\ posts'[q] = [posts[q] EXCEPT !.orphan = TRUE]
    BY DEF ShowAnother, Sent, BannerInv, PageTypes
  <2> QED BY <2>1 DEF Post
<1>3. PageTypes'
  BY <1>1, <1>2 DEF ShowAnother, BannerInv, PageTypes
<1>4. ASSUME ~carried' PROVE OwnCount'
  <2>1. extra' = 0 /\ Sent' = {}
    <3>1. ~(extra > 0) /\ \A q \in Posts : posts[q] = Unsent
      BY <1>4, Zenon DEF ShowAnother
    <3>2. extra' = extra /\ extra \in Nat
      BY DEF ShowAnother, BannerInv, PageTypes
    <3>3. \A q \in Posts : posts'[q] = Unsent
      BY <3>1 DEF ShowAnother
    <3> QED BY <3>1, <3>2, <3>3 DEF Sent
  <2>2. PostsApart' /\ PageBehind'
    BY <2>1 DEF ShowAnother, PostsApart, PageBehind
  <2>3. CountKept'
    <3>1. Pending(current)' = Pending(resolution')
      BY DEF ShowAnother, Pending
    <3>2. Cardinality(Pending(resolution')) \in Nat
      BY PendingFinite
    <3> QED BY <2>1, <3>1, <3>2 DEF ShowAnother, CountKept
  <2> QED BY <2>2, <2>3 DEF OwnCount
<1> QED BY <1>3, <1>4 DEF BannerInv

LEMMA ClickInv ==
    ASSUME BannerInv, NEW q \in Posts, NEW d \in Discs, NEW a \in Answers, Click(q, d, a)
    PROVE  BannerInv'
<1> DEFINE post == [disc |-> d, answer |-> a, served |-> FALSE, orphan |-> FALSE]
<1>1. post \in Post /\ post # Unsent /\ post.disc = d /\ ~post.served /\ ~post.orphan
  <2>1. post \in Post
    BY DEF Post
  <2>2. post # Unsent
    BY <2>1, ReportPageAssumption DEF Post
  <2> QED BY <2>1, <2>2
<1>2. posts' = [posts EXCEPT ![q] = post] /\ posts[q] = Unsent
  BY DEF Click
<1> HIDE DEF post
<1>3. /\ posts'[q] = post /\ DOMAIN posts' = Posts /\ q \notin Sent
      /\ \A p \in Posts \ {q} : posts'[p] = posts[p]
  BY <1>2 DEF BannerInv, PageTypes, Sent
<1>4. Sent' = Sent \cup {q}
  BY <1>1, <1>3 DEF Sent
<1>5. /\ UNCHANGED <<resolution, current, initial, extra, carried>>
      /\ current[d] = "pending" /\ ~busy[d]
      /\ busy'[d] /\ busy' \in [Discs -> BOOLEAN] /\ \A e \in Discs \ {d} : busy'[e] = busy[e]
  BY DEF Click, Clickable, BannerInv, PageTypes
<1>6. PageTypes'
  BY <1>1, <1>3, <1>4, <1>5 DEF BannerInv, PageTypes, Sent
<1>7. ASSUME OwnCount PROVE OwnCount'
  <2>1. \A p \in Sent : p # q /\ posts'[p] = posts[p] /\ posts[p].disc \in Discs \ {d}
    <3>1. \A p \in Sent : posts[p].disc \in Discs /\ posts[p].disc # d
      BY <1>5, <1>7 DEF BannerInv, PageTypes, OwnCount, PostsApart, Post
    <3> QED BY <1>3, <3>1 DEF Sent
  <2>2. PostsApart'
    BY <1>1, <1>3, <1>4, <1>5, <1>7, <2>1 DEF OwnCount, PostsApart
  <2>3. PageBehind' /\ CountKept'
    BY <1>5, <1>7 DEF OwnCount, PageBehind, CountKept, Pending
  <2> QED BY <2>2, <2>3 DEF OwnCount
<1> QED BY <1>5, <1>6, <1>7 DEF BannerInv

LEMMA ServePostInv == ASSUME BannerInv, NEW q \in Posts, ServePost(q) PROVE BannerInv'
<1> DEFINE d == posts[q].disc
           a == posts[q].answer
           post == [posts[q] EXCEPT !.served = TRUE]
<1>1. q \in Sent /\ posts[q] \in Post /\ d \in Discs /\ a \in Answers
  BY DEF ServePost, Sent, BannerInv, PageTypes, Post
<1>2. post \in Post /\ post.disc = d /\ post # Unsent /\ post.orphan = posts[q].orphan
  BY <1>1, ReportPageAssumption DEF Post
<1>3. /\ posts'[q] = post /\ DOMAIN posts' = Posts
      /\ \A p \in Posts \ {q} : posts'[p] = posts[p]
  BY DEF ServePost, BannerInv, PageTypes
<1> HIDE DEF post
<1>4. /\ Sent' = Sent
      /\ \A p \in Sent : /\ posts'[p].disc = posts[p].disc /\ posts'[p] \in Post
                         /\ posts'[p].orphan = posts[p].orphan
  BY <1>1, <1>2, <1>3 DEF Sent, BannerInv, PageTypes
<1>5. /\ UNCHANGED <<current, busy, initial, extra, carried>>
      /\ \/ posts[q].orphan /\ UNCHANGED resolution
         \/ /\ ~posts[q].orphan /\ resolution'[d] = a
            /\ resolution' \in [Discs -> States]
            /\ \A e \in Discs \ {d} : resolution'[e] = resolution[e]
  BY <1>1 DEF ServePost, BannerInv, PageTypes, States
<1>6. PageTypes'
  BY <1>3, <1>4, <1>5 DEF BannerInv, PageTypes
<1>7. ASSUME OwnCount PROVE OwnCount'
  <2>1. ~posts[q].orphan
    BY <1>1, <1>7 DEF OwnCount, PostsApart
  <2>2. \A p \in Sent : posts[p].disc \in Discs
    BY DEF BannerInv, PageTypes, Post
  <2>3. \A p \in Sent \ {q} : posts'[p] = posts[p]
    BY <1>3 DEF Sent
  <2>4. PostsApart'
    BY <1>1, <1>4, <1>5, <1>7, <2>1, <2>2, <2>3 DEF OwnCount, PostsApart
  <2>5. PageBehind' /\ CountKept'
    BY <1>1, <1>5, <1>7, <2>1, ReportPageAssumption DEF OwnCount, PageBehind, CountKept, Pending
  <2> QED BY <2>4, <2>5 DEF OwnCount
<1> QED BY <1>5, <1>6, <1>7 DEF BannerInv

\* A request that is answered or lost leaves the others alone.
LEMMA PostGone ==
    ASSUME BannerInv, NEW q \in Sent, posts' = [posts EXCEPT ![q] = Unsent]
    PROVE  /\ Sent' = Sent \ {q} /\ DOMAIN posts' = Posts
           /\ \A p \in Sent' : /\ posts'[p] = posts[p] /\ posts[p] \in Post
                               /\ posts[p].disc \in Discs
           /\ posts[q] \in Post /\ posts[q].disc \in Discs /\ posts[q].answer \in Answers
<1>1. \A p \in Sent : posts[p] \in Post /\ posts[p].disc \in Discs /\ posts[p].answer \in Answers
  BY DEF BannerInv, PageTypes, Post
<1>2. Sent' = Sent \ {q} /\ DOMAIN posts' = Posts /\ \A p \in Sent' : posts'[p] = posts[p]
  BY DEF BannerInv, PageTypes, Sent
<1> QED BY <1>1, <1>2

LEMMA PostDoneInv == ASSUME BannerInv, NEW q \in Posts, PostDone(q) PROVE BannerInv'
<1> DEFINE d == posts[q].disc
           a == posts[q].answer
<1>1. q \in Sent
  BY DEF PostDone, Sent
<1>2. /\ Sent' = Sent \ {q} /\ DOMAIN posts' = Posts
      /\ \A p \in Sent' : posts'[p] = posts[p] /\ posts[p] \in Post /\ posts[p].disc \in Discs
      /\ posts[q] \in Post /\ d \in Discs /\ a \in Answers
  BY <1>1, PostGone DEF PostDone
<1>3. /\ UNCHANGED <<resolution, initial, carried>> /\ extra' = extra + 1
      /\ \/ posts[q].orphan /\ UNCHANGED <<current, busy>>
         \/ /\ ~posts[q].orphan
            /\ current'[d] = a /\ current' \in [Discs -> States]
            /\ \A e \in Discs \ {d} : current'[e] = current[e] /\ busy'[e] = busy[e]
            /\ busy' \in [Discs -> BOOLEAN]
  BY <1>2 DEF PostDone, BannerInv, PageTypes, States
<1>4. PageTypes'
  BY <1>2, <1>3 DEF BannerInv, PageTypes
<1>5. ASSUME OwnCount PROVE OwnCount'
  <2>1. ~posts[q].orphan /\ current[d] = "pending" /\ resolution[d] \in Answers
    BY <1>1, <1>5 DEF OwnCount, PostsApart, PostDone
  <2>2. \A p \in Sent' : p \in Sent /\ posts[p].disc # d
    BY <1>1, <1>2, <1>5 DEF OwnCount, PostsApart
  <2>3. PostsApart'
    BY <1>2, <1>3, <1>5, <2>1, <2>2 DEF OwnCount, PostsApart
  <2>4. PageBehind'
    BY <1>2, <1>3, <1>5, <2>1, ReportPageAssumption DEF OwnCount, PageBehind
  <2>5. CountKept'
    <3>1. Pending(current)' = Pending(current) \ {d} /\ d \in Pending(current)
      BY <1>2, <1>3, <2>1, ReportPageAssumption DEF Pending
    <3>2. Cardinality(Pending(current) \ {d}) = Cardinality(Pending(current)) - 1
      BY <3>1, PendingFinite, FS_RemoveElement
    <3>3. Cardinality(Pending(current)) \in Nat
      BY PendingFinite
    <3> QED BY <1>3, <1>5, <3>1, <3>2, <3>3 DEF BannerInv, PageTypes, OwnCount, CountKept
  <2> QED BY <2>3, <2>4, <2>5 DEF OwnCount
<1> QED BY <1>3, <1>4, <1>5 DEF BannerInv

LEMMA PostFailsInv == ASSUME BannerInv, NEW q \in Posts, PostFails(q) PROVE BannerInv'
<1>1. q \in Sent
  BY DEF PostFails, Sent
<1>2. /\ Sent' = Sent \ {q} /\ DOMAIN posts' = Posts
      /\ \A p \in Sent' : posts'[p] = posts[p] /\ posts[p] \in Post /\ posts[p].disc \in Discs
      /\ posts[q] \in Post /\ posts[q].disc \in Discs
  BY <1>1, PostGone DEF PostFails
<1>3. /\ UNCHANGED <<resolution, current, initial, extra, carried>>
      /\ busy' \in [Discs -> BOOLEAN]
      /\ \A e \in Discs \ {posts[q].disc} : busy'[e] = busy[e]
  BY <1>2 DEF PostFails, BannerInv, PageTypes
<1>4. PageTypes'
  BY <1>2, <1>3 DEF BannerInv, PageTypes
<1>5. ASSUME OwnCount PROVE OwnCount'
  <2>1. \A p \in Sent' : p \in Sent /\ posts[p].disc # posts[q].disc
    BY <1>1, <1>2, <1>5 DEF OwnCount, PostsApart
  <2>2. PostsApart'
    BY <1>2, <1>3, <1>5, <2>1 DEF OwnCount, PostsApart
  <2>3. PageBehind' /\ CountKept'
    BY <1>3, <1>5 DEF OwnCount, PageBehind, CountKept, Pending
  <2> QED BY <2>2, <2>3 DEF OwnCount
<1> QED BY <1>3, <1>4, <1>5 DEF BannerInv

LEMMA RunClearsInv == ASSUME BannerInv, RunClears PROVE BannerInv'
<1>1. UNCHANGED <<resolution, current, busy, initial, extra, posts, carried>>
  BY DEF RunClears
<1>2. PageTypes'
  BY <1>1 DEF BannerInv, PageTypes, Sent
<1>3. OwnCount => OwnCount'
  BY <1>1 DEF OwnCount, PostsApart, PageBehind, CountKept, Pending, Sent
<1> QED BY <1>1, <1>2, <1>3 DEF BannerInv

LEMMA OthersInv ==
    ASSUME BannerInv, NEW d \in Discs,
           RunAdds(d) \/ \E a \in Answers : OtherResolves(d, a)
    PROVE  BannerInv'
<1>1. /\ UNCHANGED <<current, busy, initial, extra, posts, carried>>
      /\ resolution' \in [Discs -> States]
      /\ \A e \in Discs \ {d} : resolution'[e] = resolution[e]
      /\ resolution'[d] # "absent"
      /\ \/ resolution[d] = "absent"
         \/ resolution'[d] \in Answers
  BY ReportPageAssumption DEF RunAdds, OtherResolves, BannerInv, PageTypes, States
<1>2. Sent' = Sent /\ \A q \in Sent : posts[q].disc \in Discs
  BY <1>1 DEF BannerInv, PageTypes, Post, Sent
<1>3. PageTypes'
  BY <1>1, <1>2 DEF BannerInv, PageTypes
<1>4. ASSUME OwnCount PROVE OwnCount'
  <2>1. PageBehind'
    BY <1>1, <1>4, ReportPageAssumption DEF OwnCount, PageBehind, BannerInv, PageTypes
  <2>2. PostsApart'
    BY <1>1, <1>2, <1>4, ReportPageAssumption DEF OwnCount, PostsApart
  <2>3. CountKept'
    BY <1>1, <1>4 DEF OwnCount, CountKept, Pending
  <2> QED BY <2>1, <2>2, <2>3 DEF OwnCount
<1> QED BY <1>1, <1>3, <1>4 DEF BannerInv

LEMMA BannerNextInv == ASSUME BannerInv, [Next]_vars PROVE BannerInv'
<1>1. CASE UNCHANGED reportVars
  BY <1>1 DEF reportVars, BannerInv, PageTypes, OwnCount, PostsApart, PageBehind, CountKept, Pending, Sent
<1>2. CASE Reconcile
  <2>1. ReportPageStep
    BY <1>2 DEF Reconcile
  <2> QED
    BY <2>1, ReopenInv, ShowAnotherInv, RunClearsInv, ClickInv, ServePostInv, PostDoneInv,
       PostFailsInv, OthersInv
    DEF ReportPageStep
<1> QED
  BY <1>1, <1>2 DEF Next, Edit, Delete, Import, Export, Read, Browse, Stop, vars, clientVars

LEMMA BannerInvTrue == ASSUME BannerInv PROVE BannerTrue
<1> SUFFICES ASSUME OwnCount PROVE BannerTrue
  BY DEF BannerInv, BannerTrue
<1> DEFINE P == Pending(current)
           A == {d \in Discs : current[d] \in Answers}
           B == {d \in OnPage : resolution[d] \in Answers}
<1>1. OnPage = P \cup A /\ P \cap A = {} /\ A \subseteq B /\ B \subseteq Discs /\ A \subseteq Discs
  BY ReportPageAssumption DEF BannerInv, OwnCount, PageTypes, PageBehind, OnPage, Pending, States
<1>2. IsFiniteSet(P) /\ IsFiniteSet(A) /\ IsFiniteSet(B)
  BY <1>1, PendingFinite, FS_Subset, ReportPageAssumption
<1>3. Cardinality(OnPage) = Cardinality(P) + Cardinality(A)
  <2>1. Cardinality(P \cup A) = Cardinality(P) + Cardinality(A) - Cardinality(P \cap A)
    BY <1>2, FS_Union
  <2>2. Cardinality(P \cap A) = 0
    BY <1>1, FS_EmptySet
  <2>3. Cardinality(P) \in Nat /\ Cardinality(A) \in Nat
    BY <1>2, FS_CardinalityType
  <2> HIDE DEF P, A
  <2> QED BY <1>1, <2>1, <2>2, <2>3
<1>4. Cardinality(A) <= Cardinality(B)
  BY <1>1, <1>2, FS_Subset
<1>5. UnresolvedCount = Cardinality(P)
  BY PendingFinite DEF BannerInv, OwnCount, PageTypes, CountKept, UnresolvedCount
<1>6. Cardinality(P) \in Nat /\ Cardinality(A) \in Nat /\ Cardinality(B) \in Nat
  BY <1>2, FS_CardinalityType
<1> HIDE DEF P, A
<1> QED BY <1>3, <1>4, <1>5, <1>6 DEF BannerTrue, ResolvedCount

\* Of the report it was opened for, the page's own count never claims a discrepancy
\* resolved that the server has not resolved, however many there are, whatever
\* answers are lost and whenever a run replaces the rows.
THEOREM BannerNeverAhead == Spec => []BannerTrue
<1>1. Init => BannerInv
  BY BannerInit DEF Init
<1>2. BannerInv /\ [Next]_vars => BannerInv'
  BY BannerNextInv
<1>3. BannerInv => BannerTrue
  BY BannerInvTrue
<1> QED BY <1>1, <1>2, <1>3, PTL DEF Spec

-----------------------------------------------------------------------------
(* The inventory list.                                                     *)

\* No answer, whatever order it comes in, and no deletion leaves a row selected
\* that is not on the page: a bulk deletion takes only what the user can see.
THEOREM SelectionStaysShown == Spec => []SelectionShown
<1>1. Init => SelectionShown
  BY DEF Init, StockPageInit, SelectionShown
<1>2. SelectionShown /\ [Next]_vars => SelectionShown'
  <2> SUFFICES ASSUME SelectionShown, [Next]_vars PROVE SelectionShown'
    OBVIOUS
  <2>1. CASE UNCHANGED <<loaded, selected>>
    BY <2>1 DEF SelectionShown, Shown
  <2>2. CASE Browse
    <3>1. ASSUME NEW s \in Fetches, NEW v \in Views, ChangeFilter(s, v) PROVE SelectionShown'
      BY <3>1 DEF ChangeFilter, Begin, Cleared, SelectionShown
    <3>2. ASSUME NEW s \in Fetches, ReceivePage(s) PROVE SelectionShown'
      <4>1. loaded' = loaded \o fetching[s].page /\ UNCHANGED selected
        BY <3>2 DEF ReceivePage
      <4> QED BY <4>1 DEF SelectionShown, Shown, ToSet
    <3>3. ASSUME NEW i \in StockRows, ToggleSelect(i) PROVE SelectionShown'
      BY <3>3 DEF ToggleSelect, listVars, SelectionShown, Shown
    <3>4. ASSUME SelectAll \/ ClearSelection PROVE SelectionShown'
      BY <3>4 DEF SelectAll, ClearSelection, listVars, SelectionShown, Shown
    <3>5. ASSUME NEW b \in Bulks, DeleteDone(b) PROVE SelectionShown'
      BY <3>5 DEF DeleteDone, SelectionShown
    <3>6. ASSUME NEW b \in Bulks, NEW s \in Fetches, EditDone(b, s) PROVE SelectionShown'
      BY <3>6 DEF EditDone, Begin, Cleared, SelectionShown
    <3>7. ASSUME \/ \E s \in Fetches : LoadMore(s) \/ ServePage(s) \/ FetchFails(s)
                 \/ \E i \in StockRows : RowVanishes(i)
                 \/ ToggleEdit
                 \/ \E b \in Bulks : \/ \E op \in {"delete", "edit"} : SubmitBulk(b, op)
                                     \/ ServeBulk(b) \/ BulkFails(b)
          PROVE  SelectionShown'
      BY <2>1, <3>7 DEF LoadMore, ServePage, FetchFails, RowVanishes, ToggleEdit, SubmitBulk, ServeBulk,
         BulkFails, listVars
    <3> QED
      BY <2>2, <3>1, <3>2, <3>3, <3>4, <3>5, <3>6, <3>7 DEF Browse, StockPageStep
  <2> QED
    BY <2>1, <2>2 DEF Next, Edit, Delete, Import, Export, Read, Reconcile, Stop, vars, clientVars,
       stockPageVars, listVars
<1> QED BY <1>1, <1>2, PTL DEF Spec
-----------------------------------------------------------------------------
(* A list that is read page by page.                                       *)

TableTypes ==
    /\ rows \in [Ids -> PageRow \cup {Absent}] /\ micros \in Nat /\ list \in Lists
    /\ cursor \in PageCursor \cup {Absent} /\ shown \in [Ids -> Nat]
    /\ reading \in {"before", "during", "after"} /\ crowded \in BOOLEAN
    /\ steady \subseteq Present /\ IsFiniteSet(Present)

\* Unless the history says so, no two rows were created in one millisecond.
Spread ==
    ~crowded => \A i, j \in Present : i # j => Trunc(rows[i].created) # Trunc(rows[j].created)

\* Nothing is shown before the first page.
UnreadYet == reading = "before" => cursor = Absent /\ \A i \in Ids : shown[i] = 0

\* The cursor parts the rows: none below it has been shown, ..
NoneShownBelow ==
    reading = "during" =>
        /\ cursor # Absent
        /\ \A i \in Present : shown[i] = 1 => ~Below(rows[i].created, i, cursor)

\* .. and none that stays is above it and has not.
Serves == list.of = "flags" => ~crowded
NoneMissedAbove ==
    Serves =>
        /\ reading = "during" => \A i \in steady : shown[i] = 1 \/ Below(rows[i].created, i, cursor)
        /\ reading = "after" => \A i \in steady : shown[i] = 1

PagesInv ==
    /\ TableTypes
    /\ Spread
    /\ UnreadYet
    /\ ByDate => (\A i \in Ids : shown[i] \in {0, 1}) /\ NoneShownBelow /\ NoneMissedAbove

-----------------------------------------------------------------------------
(* The order of a page.                                                    *)

LEMMA RowOf ==
    ASSUME TableTypes, NEW i \in Present
    PROVE  i \in Ids /\ i \in Nat /\ rows[i] \in PageRow /\ rows[i].created \in Nat
  BY PagesAssumption DEF TableTypes, Present, PageRow

\* Newest first, and the greater id first of two of one time.
LEMMA DateOrder ==
    ASSUME TableTypes, ByDate, NEW i \in Present, NEW j \in Present
    PROVE  Precedes(i, j) <=> \/ rows[i].created > rows[j].created
                              \/ rows[i].created = rows[j].created /\ i > j
<1>1. Key(i) = <<rows[i].created, i, i>> /\ Key(j) = <<rows[j].created, j, j>>
  BY DEF ByDate, Key
<1>2. Precedes(i, j) <=> Exceeds(Key(i), Key(j))
  BY DEF ByDate, Precedes
<1>3. Exceeds(Key(i), Key(j)) <=> \/ Key(i)[1] > Key(j)[1]
                                  \/ Key(i)[2] > Key(j)[2] /\ Key(i)[1] = Key(j)[1]
                                  \/ Key(i)[3] > Key(j)[3] /\ Key(i)[1] = Key(j)[1] /\ Key(i)[2] = Key(j)[2]
  <2>1. 1..3 = {1, 2, 3} /\ 1..0 = {} /\ 1..1 = {1} /\ 1..2 = {1, 2}
    OBVIOUS
  <2> QED BY <2>1 DEF Exceeds
<1>4. i \in Nat /\ j \in Nat
  BY RowOf
<1> QED BY <1>1, <1>2, <1>3, <1>4

LEMMA BelowIs ==
    ASSUME TableTypes, NEW i \in Present, NEW c \in PageCursor
    PROVE  /\ c.created \in Nat /\ c.id \in Nat
           /\ Below(rows[i].created, i, c) <=> \/ rows[i].created < c.created
                                               \/ rows[i].created = c.created /\ i < c.id
  BY PagesAssumption DEF Below, PageCursor

LEMMA TruncIs ==
    ASSUME NEW t \in Nat, NEW u \in Nat
    PROVE  Trunc(t) \in Nat /\ Trunc(t) <= t /\ (t < u /\ Trunc(t) # Trunc(u) => t < Trunc(u))
<1> DEFINE a == t \div Milli
           b == u \div Milli
<1>1. Milli \in Nat /\ Milli > 0
  BY PagesAssumption
<1>2. a \in Nat /\ b \in Nat /\ t % Milli \in 0..(Milli - 1) /\ u % Milli \in 0..(Milli - 1)
  BY <1>1
<1>3. t = Milli * a + (t % Milli) /\ u = Milli * b + (u % Milli)
  BY <1>1
<1>4. Trunc(t) = Milli * a /\ Trunc(u) = Milli * b /\ Milli * a \in Nat /\ Milli * b \in Nat
  BY <1>1, <1>2, <1>3 DEF Trunc
<1>5. Trunc(t) <= t
  BY <1>1, <1>2, <1>4 DEF Trunc
<1>6. ASSUME t < u, Trunc(t) # Trunc(u) PROVE t < Trunc(u)
  <2>1. a < b \/ a > b
    BY <1>2, <1>4, <1>6
  <2>2. ASSUME NEW m \in Nat, NEW n \in Nat, m < n PROVE Milli * m + Milli <= Milli * n
    <3>1. PICK k \in Nat : n = m + 1 + k
      <4>1. n - m - 1 \in Nat /\ n = m + 1 + (n - m - 1)
        BY <2>2
      <4> QED BY <4>1
    <3>2. Milli * n = Milli * m + Milli + Milli * k /\ Milli * k \in Nat /\ Milli * m \in Nat
      BY <1>1, <3>1
    <3> QED BY <1>1, <3>2
  <2>3. CASE a > b
    <3>1. Milli * b + Milli <= Milli * a
      BY <1>2, <2>2, <2>3
    <3> HIDE DEF a, b
    <3> QED BY <1>1, <1>2, <1>3, <1>4, <1>6, <3>1
  <2>4. CASE a < b
    <3>1. Milli * a + Milli <= Milli * b
      BY <1>2, <2>2, <2>4
    <3> HIDE DEF a, b
    <3> QED BY <1>1, <1>2, <1>3, <1>4, <3>1
  <2> QED BY <2>1, <2>3, <2>4
<1> QED BY <1>1, <1>4, <1>5, <1>6

Ahead(i) == {j \in Selected : Precedes(j, i)}

LEMMA SelectedFinite ==
    ASSUME TableTypes
    PROVE  /\ Selected \subseteq Present /\ IsFiniteSet(Selected) /\ Cardinality(Selected) \in Nat
           /\ Page \subseteq Selected /\ IsFiniteSet(Page) /\ Cardinality(Page) \in Nat
           /\ \A i : /\ Ahead(i) \subseteq Selected /\ IsFiniteSet(Ahead(i))
                     /\ Cardinality(Ahead(i)) \in Nat
<1>1. /\ Selected \subseteq Present /\ Page \subseteq Selected /\ IsFiniteSet(Present)
      /\ \A i : Ahead(i) \subseteq Selected
  BY DEF Selected, Page, Ahead, TableTypes
<1>2. IsFiniteSet(Selected)
  BY <1>1, FS_Subset
<1>3. IsFiniteSet(Page) /\ \A i : IsFiniteSet(Ahead(i))
  BY <1>1, <1>2, FS_Subset
<1> QED BY <1>1, <1>2, <1>3, FS_CardinalityType

LEMMA PageIs == Page = {i \in Selected : Cardinality(Ahead(i)) < PageSize}
  BY DEF Page, Ahead

LEMMA AheadGrows ==
    ASSUME TableTypes, ByDate, NEW i \in Selected, NEW j \in Selected, Precedes(j, i)
    PROVE  Cardinality(Ahead(j)) < Cardinality(Ahead(i))
<1>1. i \in Present /\ j \in Present
  BY DEF Selected
<1>2. j \notin Ahead(j)
  BY <1>1, DateOrder, RowOf DEF Ahead
<1>3. Ahead(j) \cup {j} \subseteq Ahead(i)
  <2> SUFFICES ASSUME NEW k \in Selected, Precedes(k, j) PROVE Precedes(k, i)
    BY DEF Ahead
  <2>1. k \in Present
    BY DEF Selected
  <2> QED BY <1>1, <2>1, DateOrder, RowOf
<1>4. Cardinality(Ahead(j) \cup {j}) = Cardinality(Ahead(j)) + 1
  BY <1>2, SelectedFinite, FS_AddElement
<1>5. Cardinality(Ahead(j) \cup {j}) <= Cardinality(Ahead(i))
  BY <1>3, SelectedFinite, FS_Subset
<1>6. Cardinality(Ahead(i)) \in Nat /\ Cardinality(Ahead(j)) \in Nat
  BY SelectedFinite
<1> QED BY <1>4, <1>5, <1>6

LEMMA Least ==
    ASSUME NEW W, W # {}, NEW f, \A w \in W : f[w] \in Nat
    PROVE  \E w \in W : \A v \in W : f[w] <= f[v]
<1> DEFINE T == {f[w] : w \in W}
<1>1. T \subseteq Nat /\ T # {}
  OBVIOUS
<1>2. PICK n \in T : \A m \in T : <<m, n>> \notin OpToRel(<, Nat)
  BY <1>1, NatLessThanWellFounded, WFMin
<1>3. \A m \in T : ~(m < n)
  BY <1>1, <1>2 DEF OpToRel
<1> QED BY <1>1, <1>3

\* A row that is selected and not on the page comes after the whole of it.
LEMMA PageFirst ==
    ASSUME TableTypes, ByDate, NEW i \in Page, NEW j \in Selected \ Page
    PROVE  Precedes(i, j)
<1>1. i \in Selected /\ i \in Present /\ j \in Present /\ i # j
  BY PageIs DEF Selected
<1>2. ~Precedes(j, i)
  <2> SUFFICES ASSUME Precedes(j, i) PROVE FALSE
    OBVIOUS
  <2>1. Cardinality(Ahead(j)) < Cardinality(Ahead(i)) /\ Cardinality(Ahead(i)) < PageSize
    BY <1>1, AheadGrows, PageIs
  <2>2. ~(Cardinality(Ahead(j)) < PageSize)
    BY PageIs
  <2> QED BY <2>1, <2>2, SelectedFinite, PagesAssumption
<1> QED BY <1>1, <1>2, DateOrder, RowOf

\* No page has more than PageSize rows, and one that leaves a row out has as many.
LEMMA PageFull ==
    ASSUME TableTypes, ByDate
    PROVE  Cardinality(Page) <= PageSize /\ (Page # Selected => Cardinality(Page) = PageSize)
<1> DEFINE rank == [i \in Selected |-> Cardinality(Ahead(i))]
           back == [i \in Selected |-> PageSize - Cardinality(Ahead(i))]
<1>1. PageSize \in Nat \ {0} /\ Cardinality(Page) \in Nat /\ Page \subseteq Selected
  BY PagesAssumption, SelectedFinite
<1>2. Cardinality(Page) <= PageSize
  <2>1. CASE Page = {}
    BY <1>1, <2>1, FS_EmptySet
  <2>2. CASE Page # {}
    <3> DEFINE W == Page
    <3>1. W # {} /\ \A i \in W : back[i] \in Nat
      BY <1>1, <2>2, PageIs, SelectedFinite
    <3>2. PICK l \in W : \A i \in W : back[l] <= back[i]
      <4> HIDE DEF back, W
      <4> QED BY <3>1, Least
    <3>3. l \in Page /\ \A i \in Page : Cardinality(Ahead(i)) <= Cardinality(Ahead(l))
      <4> SUFFICES ASSUME NEW i \in Page PROVE Cardinality(Ahead(i)) <= Cardinality(Ahead(l))
        OBVIOUS
      <4>1. PageSize - Cardinality(Ahead(l)) <= PageSize - Cardinality(Ahead(i))
        BY <1>1, <3>2
      <4>2. Cardinality(Ahead(l)) \in Nat /\ Cardinality(Ahead(i)) \in Nat
        BY SelectedFinite
      <4> QED BY <1>1, <4>1, <4>2
    <3>4. Page \subseteq Ahead(l) \cup {l}
      <4> SUFFICES ASSUME NEW i \in Page, i # l, ~Precedes(i, l) PROVE FALSE
        BY <1>1, <3>3 DEF Ahead
      <4>1. i \in Selected /\ l \in Selected /\ i \in Present /\ l \in Present
        BY <1>1, <3>3, SelectedFinite
      <4>2. Precedes(l, i)
        BY <4>1, DateOrder, RowOf
      <4>3. Cardinality(Ahead(l)) < Cardinality(Ahead(i))
        BY <4>1, <4>2, AheadGrows
      <4> QED BY <3>3, <4>3, SelectedFinite
    <3>5. l \notin Ahead(l)
      <4>1. l \in Present
        BY <1>1, <3>3, SelectedFinite
      <4> QED BY <4>1, DateOrder, RowOf DEF Ahead
    <3>6. IsFiniteSet(Ahead(l) \cup {l}) /\ Cardinality(Ahead(l) \cup {l}) = Cardinality(Ahead(l)) + 1
      BY <3>5, SelectedFinite, FS_AddElement
    <3>7. Cardinality(Page) <= Cardinality(Ahead(l)) + 1
      BY <3>4, <3>6, FS_Subset
    <3>8. Cardinality(Ahead(l)) < PageSize /\ Cardinality(Ahead(l)) \in Nat
      BY <3>3, PageIs, SelectedFinite
    <3> QED BY <1>1, <3>7, <3>8
  <2> QED BY <2>1, <2>2
<1>3. ASSUME Page # Selected PROVE Cardinality(Page) >= PageSize
  <2> DEFINE W == Selected \ Page
  <2>1. W # {} /\ \A i \in W : rank[i] \in Nat
    BY <1>1, <1>3, SelectedFinite
  <2>2. PICK w \in W : \A i \in W : rank[w] <= rank[i]
    <3> HIDE DEF rank, W
    <3> QED BY <2>1, Least
  <2>3. Ahead(w) \subseteq Page
    <3> SUFFICES ASSUME NEW i \in Ahead(w), i \notin Page PROVE FALSE
      OBVIOUS
    <3>1. i \in W /\ Precedes(i, w)
      BY DEF Ahead
    <3>2. Cardinality(Ahead(i)) < Cardinality(Ahead(w))
      BY <3>1, AheadGrows
    <3> QED BY <2>2, <3>1, <3>2, SelectedFinite
  <2>4. Cardinality(Ahead(w)) <= Cardinality(Page)
    BY <2>3, SelectedFinite, FS_Subset
  <2>5. ~(Cardinality(Ahead(w)) < PageSize)
    BY PageIs
  <2> QED BY <1>1, <2>4, <2>5, SelectedFinite
<1> QED BY <1>1, <1>2, <1>3

\* The last page holds what is left.
LEMMA LastPage == ASSUME TableTypes, ByDate, ~MorePages PROVE Page = Selected
<1>1. CASE list.of # "flags"
  BY <1>1, PageFull DEF MorePages
<1>2. CASE list.of = "flags"
  <2>1. Cardinality(Selected) <= PageSize
    BY <1>2, SelectedFinite, PagesAssumption DEF MorePages
  <2> SUFFICES ASSUME NEW i \in Selected PROVE Cardinality(Ahead(i)) < PageSize
    BY PageIs
  <2>2. i \in Present
    BY DEF Selected
  <2>3. Ahead(i) \subseteq Selected \ {i}
    BY <2>2, DateOrder, RowOf DEF Ahead
  <2>4. IsFiniteSet(Selected \ {i}) /\ Cardinality(Selected \ {i}) = Cardinality(Selected) - 1
    BY SelectedFinite, FS_RemoveElement
  <2>5. Cardinality(Ahead(i)) <= Cardinality(Selected \ {i})
    BY <2>3, <2>4, FS_Subset
  <2> QED BY <2>1, <2>4, <2>5, SelectedFinite, PagesAssumption
<1> QED BY <1>1, <1>2


-----------------------------------------------------------------------------
(* The steps of the list.                                                  *)

LEMMA PagesInitInv == ASSUME PagesInit PROVE PagesInv
<1>1. Present = {}
  BY DEF PagesInit, Present
<1>2. TableTypes
  BY <1>1, FS_EmptySet DEF PagesInit, TableTypes
<1>3. Spread
  BY <1>1 DEF Spread
<1>4. UnreadYet /\ NoneShownBelow /\ NoneMissedAbove /\ \A i \in Ids : shown[i] \in {0, 1}
  BY DEF PagesInit, UnreadYet, NoneShownBelow, NoneMissedAbove
<1> QED BY <1>2, <1>3, <1>4 DEF PagesInv

LEMMA InsertRowInv ==
    ASSUME PagesInv, NEW i \in Ids, NEW r \in Ranks, InsertRow(i, r)
    PROVE  PagesInv'
<1> DEFINE row == [created |-> micros, rank |-> r]
<1>1. /\ rows[i] = Absent /\ shown[i] = 0 /\ rows' = [rows EXCEPT ![i] = row]
      /\ UNCHANGED <<micros, list, cursor, shown, reading, steady>>
      /\ crowded' = (crowded \/ \E j \in Present : Trunc(rows[j].created) = Trunc(micros))
  BY DEF InsertRow
<1>2. row \in PageRow /\ row.created = micros
  BY DEF PageRow, PagesInv, TableTypes
<1>3. row # Absent
  BY <1>2, PagesAssumption
<1> HIDE DEF row
<1>4. /\ rows' \in [Ids -> PageRow \cup {Absent}] /\ rows'[i] = row
      /\ Present' = Present \cup {i} /\ i \notin Present
      /\ \A j \in Present : rows'[j] = rows[j]
  BY <1>1, <1>2, <1>3 DEF PagesInv, TableTypes, Present
<1>5. IsFiniteSet(Present')
  BY <1>4, FS_AddElement DEF PagesInv, TableTypes
<1>6. TableTypes'
  BY <1>1, <1>4, <1>5 DEF PagesInv, TableTypes
<1>7. Spread'
  <2> SUFFICES ASSUME ~crowded', NEW j \in Present', NEW k \in Present', j # k
               PROVE  Trunc(rows'[j].created) # Trunc(rows'[k].created)
    BY DEF Spread, Trunc
  <2>1. ~crowded /\ \A h \in Present : Trunc(rows[h].created) # Trunc(micros)
    BY <1>1
  <2>2. CASE j \in Present /\ k \in Present
    BY <1>4, <2>1, <2>2 DEF PagesInv, Spread
  <2>3. CASE j = i \/ k = i
    BY <1>2, <1>4, <2>1, <2>3
  <2> QED BY <1>4, <2>2, <2>3
<1>8. UnreadYet'
  BY <1>1 DEF PagesInv, UnreadYet
<1>9. ASSUME ByDate' PROVE (\A j \in Ids : shown[j] \in {0, 1})' /\ NoneShownBelow' /\ NoneMissedAbove'
  <2>1. ByDate /\ (\A j \in Ids : shown[j] \in {0, 1}) /\ NoneShownBelow /\ NoneMissedAbove
    BY <1>1, <1>9 DEF ByDate, PagesInv
  <2>2. NoneShownBelow'
    BY <1>1, <1>4, <2>1 DEF NoneShownBelow, Below
  <2>3. NoneMissedAbove'
    BY <1>1, <1>4, <2>1 DEF NoneMissedAbove, Serves, Below, PagesInv, TableTypes
  <2> QED BY <1>1, <2>1, <2>2, <2>3
<1> QED BY <1>6, <1>7, <1>8, <1>9 DEF PagesInv

LEMMA DeleteRowInv == ASSUME PagesInv, NEW i \in Ids, DeleteRow(i) PROVE PagesInv'
<1>1. /\ i \in Present /\ rows' = [rows EXCEPT ![i] = Absent] /\ steady' = steady \ {i}
      /\ UNCHANGED <<micros, list, cursor, shown, reading, crowded>>
  BY DEF DeleteRow
<1>2. /\ rows' \in [Ids -> PageRow \cup {Absent}] /\ Present' = Present \ {i}
      /\ \A j \in Present' : rows'[j] = rows[j]
  BY <1>1 DEF PagesInv, TableTypes, Present
<1>3. IsFiniteSet(Present')
  BY <1>2, FS_Subset DEF PagesInv, TableTypes
<1>4. TableTypes' /\ Spread' /\ UnreadYet'
  BY <1>1, <1>2, <1>3 DEF PagesInv, TableTypes, Spread, UnreadYet, Trunc
<1>5. ASSUME ByDate' PROVE (\A j \in Ids : shown[j] \in {0, 1})' /\ NoneShownBelow' /\ NoneMissedAbove'
  <2>1. ByDate /\ (\A j \in Ids : shown[j] \in {0, 1}) /\ NoneShownBelow /\ NoneMissedAbove
    BY <1>1, <1>5 DEF ByDate, PagesInv
  <2>2. \A j \in steady' : j \in Present' /\ j \in steady
    BY <1>1, <1>2 DEF PagesInv, TableTypes
  <2>3. NoneShownBelow' /\ NoneMissedAbove'
    BY <1>1, <1>2, <2>1, <2>2 DEF NoneShownBelow, NoneMissedAbove, Serves, Below
  <2> QED BY <1>1, <2>1, <2>3
<1> QED BY <1>4, <1>5 DEF PagesInv

\* Only rows not shown yet are selected.
LEMMA SelectedUnshown ==
    ASSUME PagesInv, ByDate, reading # "after"
    PROVE  \A i \in Selected : shown[i] = 0
  BY DEF PagesInv, TableTypes, UnreadYet, NoneShownBelow, Selected, Present

\* Where the last row of a page puts the cursor.
LEMMA CursorIs ==
    ASSUME TableTypes, Spread, NEW i \in Present
    PROVE  /\ CursorAfter(i) \in PageCursor /\ CursorAfter(i).id = i
           /\ CursorAfter(i).created <= rows[i].created
           /\ \A j \in Present : Serves /\ rows[j].created < rows[i].created
                                   => rows[j].created < CursorAfter(i).created
           /\ list.of # "flags" => CursorAfter(i).created = rows[i].created
<1>1. i \in Ids /\ rows[i].created \in Nat /\ \A j \in Present : rows[j].created \in Nat
  BY RowOf
<1>2. CASE list.of = "flags"
  <2>1. CursorAfter(i) = [created |-> Trunc(rows[i].created), id |-> i]
    BY <1>2 DEF CursorAfter
  <2>2. Trunc(rows[i].created) \in Nat /\ Trunc(rows[i].created) <= rows[i].created
    BY <1>1, TruncIs
  <2>3. \A j \in Present : ~crowded /\ rows[j].created < rows[i].created
                             => rows[j].created < Trunc(rows[i].created)
    BY <1>1, TruncIs DEF Spread
  <2> QED BY <1>1, <1>2, <2>1, <2>2, <2>3 DEF PageCursor, Serves
<1>3. CASE list.of # "flags"
  <2>1. CursorAfter(i) = [created |-> rows[i].created, id |-> i]
    BY <1>3 DEF CursorAfter
  <2> QED BY <1>1, <1>3, <2>1 DEF PageCursor
<1> QED BY <1>2, <1>3

LEMMA ReadPageInv == ASSUME PagesInv, ReadPage PROVE PagesInv'
<1>1. /\ reading # "after" /\ UNCHANGED <<rows, micros, list, crowded>>
      /\ shown' = [i \in Ids |-> IF i \in Page THEN shown[i] + 1 ELSE shown[i]]
      /\ steady' = IF reading = "before" THEN Present ELSE steady
      /\ \/ /\ MorePages /\ reading' = "during"
            /\ \E i \in Page : cursor' = CursorAfter(i) /\ \A j \in Page \ {i} : Precedes(j, i)
         \/ ~MorePages /\ reading' = "after" /\ UNCHANGED cursor
  BY DEF ReadPage
<1>2. TableTypes /\ Spread /\ UnreadYet /\ Page \subseteq Selected /\ Selected \subseteq Present
  BY SelectedFinite DEF PagesInv
<1>3. Present' = Present /\ Present \subseteq Ids /\ steady' \subseteq Present
  BY <1>1, <1>2 DEF Present, TableTypes
<1>4. shown' \in [Ids -> Nat] /\ \A i \in Ids : shown'[i] = IF i \in Page THEN shown[i] + 1 ELSE shown[i]
  BY <1>1, <1>2 DEF TableTypes
<1>5. cursor' \in PageCursor \cup {Absent} /\ reading' \in {"during", "after"}
  BY <1>1, <1>2, CursorIs DEF TableTypes
<1>6. TableTypes' /\ Spread' /\ UnreadYet'
  BY <1>1, <1>2, <1>3, <1>4, <1>5 DEF TableTypes, Spread, UnreadYet, Trunc
<1>7. ASSUME ByDate' PROVE (\A i \in Ids : shown[i] \in {0, 1})' /\ NoneShownBelow' /\ NoneMissedAbove'
  <2>1. ByDate /\ (\A i \in Ids : shown[i] \in {0, 1}) /\ NoneShownBelow /\ NoneMissedAbove
    BY <1>1, <1>7 DEF ByDate, PagesInv
  <2>2. \A i \in Page : shown[i] = 0 /\ shown'[i] = 1
    BY <1>1, <1>2, <1>3, <1>4, <2>1, SelectedUnshown DEF PagesInv
  <2>3. \A i \in Ids : shown'[i] \in {0, 1} /\ (shown'[i] = 1 <=> i \in Page \/ shown[i] = 1)
    BY <1>4, <2>1, <2>2
  \* A row that has not been shown is selected if it stays.
  <2>4. ASSUME Serves, NEW j \in steady', shown'[j] # 1 PROVE j \in Selected \ Page
    <3>1. j \in Present /\ j \notin Page /\ shown[j] = 0
      BY <1>3, <2>1, <2>3, <2>4
    <3>2. CASE reading = "before"
      BY <1>2, <3>1, <3>2 DEF UnreadYet, Selected
    <3>3. CASE reading = "during"
      <4>1. j \in steady /\ Below(rows[j].created, j, cursor)
        BY <1>1, <2>1, <2>4, <3>1, <3>3 DEF NoneMissedAbove
      <4> QED BY <3>1, <4>1 DEF Selected
    <3> QED BY <1>1, <1>2, <3>2, <3>3 DEF TableTypes
  <2>5. CASE ~MorePages
    <3>1. reading' = "after" /\ Page = Selected
      BY <1>1, <1>2, <2>1, <2>5, LastPage
    <3>2. NoneShownBelow' /\ NoneMissedAbove'
      BY <1>1, <2>4, <3>1 DEF NoneShownBelow, NoneMissedAbove, Serves
    <3> QED BY <2>3, <3>2
  <2>6. CASE MorePages
    <3>1. PICK i \in Page : cursor' = CursorAfter(i) /\ \A j \in Page \ {i} : Precedes(j, i)
      BY <1>1, <2>6
    <3>2. PICK c \in PageCursor : c = CursorAfter(i)
      BY <1>2, CursorIs
    <3>3. /\ reading' = "during" /\ cursor' = c /\ c # Absent /\ i \in Present /\ i \in Selected
          /\ i \in Nat /\ rows[i].created \in Nat
      BY <1>1, <1>2, <2>6, <3>1, <3>2, RowOf, PagesAssumption
    <3>4. /\ c.id = i /\ c.created \in Nat /\ c.created <= rows[i].created
          /\ \A j \in Present : Serves /\ rows[j].created < rows[i].created => rows[j].created < c.created
          /\ list.of # "flags" => c.created = rows[i].created
      BY <1>2, <3>2, <3>3, CursorIs, BelowIs
    <3>5. ASSUME NEW j \in Present, shown'[j] = 1 PROVE ~Below(rows[j].created, j, c)
      <4>1. j \in Nat /\ rows[j].created \in Nat
        BY <1>2, RowOf
      <4>2. CASE j \in Page
        <5>1. j = i \/ rows[j].created > rows[i].created \/ (rows[j].created = rows[i].created /\ j > i)
          BY <1>2, <2>1, <3>1, <3>3, <4>2, DateOrder
        <5> QED BY <1>2, <3>3, <3>4, <4>1, <5>1, BelowIs
      <4>3. CASE j \notin Page
        <5>1. shown[j] = 1 /\ reading = "during"
          BY <1>1, <1>2, <1>3, <2>3, <3>5, <4>3 DEF UnreadYet, TableTypes
        <5>2. cursor # Absent /\ ~Below(rows[j].created, j, cursor) /\ Below(rows[i].created, i, cursor)
          BY <2>1, <3>3, <5>1 DEF NoneShownBelow, Selected
        <5>3. cursor \in PageCursor
          BY <1>2, <5>2 DEF TableTypes
        <5> QED BY <1>2, <3>3, <3>4, <4>1, <5>2, <5>3, BelowIs
      <4> QED BY <4>2, <4>3
    <3>6. ASSUME Serves, NEW j \in steady', shown'[j] # 1 PROVE Below(rows[j].created, j, c)
      <4>1. j \in Selected \ Page /\ j \in Present /\ Precedes(i, j)
        BY <1>2, <2>1, <2>4, <3>1, <3>6, PageFirst
      <4>2. \/ rows[j].created < rows[i].created
            \/ rows[j].created = rows[i].created /\ j < i
        BY <1>2, <2>1, <3>3, <4>1, DateOrder, RowOf
      <4>3. CASE rows[j].created < rows[i].created
        BY <1>2, <3>4, <3>6, <4>1, <4>3, BelowIs
      <4>4. CASE rows[j].created = rows[i].created /\ j < i
        <5>1. list.of # "flags"
          BY <1>2, <3>3, <3>6, <4>1, <4>4, RowOf DEF Serves, Spread
        <5> QED BY <1>2, <3>4, <4>1, <4>4, <5>1, BelowIs
      <4> QED BY <4>2, <4>3, <4>4
    <3>7. NoneShownBelow'
      BY <1>1, <1>3, <3>3, <3>5 DEF NoneShownBelow, Below
    <3>8. NoneMissedAbove'
      BY <1>1, <3>3, <3>6 DEF NoneMissedAbove, Serves, Below
    <3> QED BY <2>3, <3>7, <3>8
  <2> QED BY <2>5, <2>6
<1> QED BY <1>6, <1>7 DEF PagesInv

LEMMA PagesNextInv == ASSUME PagesInv, [Next]_vars PROVE PagesInv'
<1>1. CASE UNCHANGED pageVars
  BY <1>1 DEF pageVars, PagesInv, TableTypes, Spread, UnreadYet, NoneShownBelow, NoneMissedAbove, Serves,
     ByDate, Present, Below, Trunc
<1>2. CASE PassTime
  BY <1>2 DEF PassTime, PagesInv, TableTypes, Spread, UnreadYet, NoneShownBelow, NoneMissedAbove, Serves,
     ByDate, Present, Below, Trunc
<1>3. CASE Read
  BY <1>2, <1>3, InsertRowInv, DeleteRowInv, ReadPageInv DEF Read, PagesStep
<1> QED
  BY <1>1, <1>3 DEF Next, Edit, Delete, Import, Export, Browse, Reconcile, Stop, vars

\* Read newest first to its end, a list has shown every row that was there all
\* along and none twice, whatever the size of a page and whatever is inserted and
\* deleted meanwhile; the flags, whose cursor forgets the microseconds, unless two
\* of them are of one millisecond.
THEOREM PagesAreComplete == Spec => []PagesComplete
<1>1. Init => PagesInv
  BY PagesInitInv DEF Init
<1>2. PagesInv /\ [Next]_vars => PagesInv'
  BY PagesNextInv
<1>3. PagesInv => PagesComplete
  BY DEF PagesInv, NoneMissedAbove, Serves, PagesComplete
<1> QED BY <1>1, <1>2, <1>3, PTL DEF Spec

-----------------------------------------------------------------------------
(* The rows that the inventory list shows.                                 *)

Climbs(s) == \A m, n \in DOMAIN s : m < n => s[m] < s[n]
There == After(filter, Nothing)

\* A deletion that the server has answered took its rows.
DeletesServed ==
    \A b \in Bulks : bulks[b] # Nothing /\ bulks[b].served /\ bulks[b].op = "delete"
                         => bulks[b].ids \cap present = {}

\* One page at a time is asked for, and it is the next of this list.
OneAsked ==
    /\ InFlight # {} => isLoading
    /\ \A s, t \in InFlight : s = t
    /\ \A s \in InFlight : fetching[s].view = filter /\ fetching[s].cursor = nextCursor

\* A page continues the list after the cursor: a full one to its last row, one that
\* is not full to the end.
Continues(p, c) ==
    /\ Climbs(p) /\ ToSet(p) \subseteq Listing[filter]
    /\ c # Nothing => \A i \in ToSet(p) : c < i
    /\ IF Len(p) = PerPage
       THEN \A i \in After(filter, c) : i <= Last(p) => i \in ToSet(p)
       ELSE After(filter, c) \subseteq ToSet(p)
NextPage == \A s \in InFlight : fetching[s].served => Continues(fetching[s].page, nextCursor)

\* The cursor parts what is shown from what is not.
ShownToCursor ==
    /\ Climbs(loaded) /\ Shown \subseteq Listing[filter]
    /\ IF nextCursor # Nothing
       THEN /\ \A i \in Shown : i <= nextCursor
            /\ \A i \in There : i <= nextCursor => i \in Shown
       ELSE \/ loaded = <<>> /\ (InFlight # {} \/ unread)
            \/ There \subseteq Shown /\ InFlight = {}

ListInv ==
    /\ StockPageTypeOK
    /\ DeletesServed
    /\ ~mixed => OneAsked /\ NextPage /\ ShownToCursor

-----------------------------------------------------------------------------
(* Finite sets of numbers in their order.                                  *)

LEMMA RankIs ==
    ASSUME NEW S \in SUBSET Nat, IsFiniteSet(S)
    PROVE  /\ Cardinality(S) \in Nat
           /\ \A i \in S : Rank(S, i) \in 0..(Cardinality(S) - 1)
           /\ \A i, j \in S : i < j => Rank(S, i) < Rank(S, j)
           /\ \A n \in 0..(Cardinality(S) - 1) : \E i \in S : Rank(S, i) = n
<1> DEFINE c == Cardinality(S)
           rank == [i \in S |-> Rank(S, i)]
<1>1. c \in Nat
  BY FS_CardinalityType
<1>2. \A i \in S : IsFiniteSet({j \in S : j < i}) /\ Rank(S, i) \in Nat
  <2> SUFFICES ASSUME NEW i \in S PROVE IsFiniteSet({j \in S : j < i}) /\ Rank(S, i) \in Nat
    OBVIOUS
  <2>1. {j \in S : j < i} \subseteq S
    OBVIOUS
  <2> QED BY <2>1, FS_Subset, FS_CardinalityType DEF Rank
<1>3. ASSUME NEW i \in S, NEW T \in SUBSET S, {j \in S : j < i} \subseteq T \ {i}, i \in T
      PROVE  Rank(S, i) < Cardinality(T) /\ Cardinality(T) \in Nat
  <2>1. IsFiniteSet(T) /\ Cardinality(T) \in Nat
    BY FS_Subset, FS_CardinalityType
  <2>2. IsFiniteSet(T \ {i}) /\ Cardinality(T \ {i}) = Cardinality(T) - 1
    BY <1>3, <2>1, FS_RemoveElement
  <2>3. Cardinality({j \in S : j < i}) <= Cardinality(T \ {i})
    BY <1>3, <2>2, FS_Subset
  <2> QED BY <1>2, <2>1, <2>2, <2>3 DEF Rank
<1>4. \A i \in S : Rank(S, i) \in 0..(c - 1)
  <2> SUFFICES ASSUME NEW i \in S PROVE Rank(S, i) \in 0..(c - 1)
    OBVIOUS
  <2>1. {j \in S : j < i} \subseteq S \ {i}
    OBVIOUS
  <2>2. Rank(S, i) < c /\ Rank(S, i) \in Nat
    BY <1>2, <1>3, <2>1
  <2> HIDE DEF c
  <2> QED BY <1>1, <2>2
<1>5. \A i, j \in S : i < j => Rank(S, i) < Rank(S, j)
  <2> SUFFICES ASSUME NEW i \in S, NEW j \in S, i < j PROVE Rank(S, i) < Rank(S, j)
    OBVIOUS
  <2> DEFINE T == {k \in S : k < j}
  <2>1. {k \in S : k < i} \subseteq T \ {i} /\ i \in T /\ T \in SUBSET S
    <3>1. i \in Nat /\ j \in Nat /\ \A k \in S : k \in Nat
      OBVIOUS
    <3>2. \A k \in S : k < i => k < j /\ k # i
      BY <3>1
    <3> QED BY <3>2
  <2>2. Rank(S, i) < Cardinality(T)
    BY <1>3, <2>1
  <2> QED BY <2>2 DEF Rank
<1>6. \A i, j \in S : i # j => Rank(S, i) # Rank(S, j)
  <2> SUFFICES ASSUME NEW i \in S, NEW j \in S, i # j PROVE Rank(S, i) # Rank(S, j)
    OBVIOUS
  <2>1. i < j \/ j < i
    OBVIOUS
  <2>2. Rank(S, i) \in Nat /\ Rank(S, j) \in Nat
    BY <1>2
  <2>3. Rank(S, i) < Rank(S, j) \/ Rank(S, j) < Rank(S, i)
    BY <1>5, <2>1
  <2> QED BY <2>2, <2>3
<1>7. rank \in Injection(S, 0..(c - 1))
  BY <1>4, <1>6 DEF Injection, IsInjective
<1>8. IsFiniteSet(0..(c - 1)) /\ Cardinality(0..(c - 1)) = c
  <2>1. Cardinality(0..(c - 1)) = IF 0 > c - 1 THEN 0 ELSE (c - 1) - 0 + 1
    BY <1>1, FS_Interval
  <2> QED BY <1>1, <2>1, FS_Interval
<1>9. rank \in Surjection(S, 0..(c - 1))
  BY <1>7, <1>8, FS_Injection
<1>10. \A n \in 0..(c - 1) : \E i \in S : Rank(S, i) = n
  BY <1>9 DEF Surjection
<1> QED BY <1>1, <1>4, <1>5, <1>10

LEMMA OrderIs ==
    ASSUME NEW S \in SUBSET Nat, IsFiniteSet(S)
    PROVE  /\ InOrder(S) \in Seq(S) /\ Len(InOrder(S)) = Cardinality(S)
           /\ ToSet(InOrder(S)) = S
           /\ Climbs(InOrder(S))
<1> DEFINE c == Cardinality(S)
           s == InOrder(S)
<1>1. /\ c \in Nat
      /\ \A i \in S : Rank(S, i) \in 0..(c - 1)
      /\ \A i, j \in S : i < j => Rank(S, i) < Rank(S, j)
      /\ \A n \in 0..(c - 1) : \E i \in S : Rank(S, i) = n
  BY RankIs
<1>2. DOMAIN s = 1..c /\ \A n \in 1..c : s[n] \in S /\ Rank(S, s[n]) = n - 1
  <2>1. \A n \in 1..c : \E i \in S : Rank(S, i) = n - 1
    <3> SUFFICES ASSUME NEW n \in 1..c PROVE \E i \in S : Rank(S, i) = n - 1
      OBVIOUS
    <3>1. n - 1 \in 0..(c - 1)
      BY <1>1
    <3> QED BY <1>1, <3>1
  <2> QED BY <2>1 DEF InOrder
<1>3. s \in [1..c -> S]
  BY <1>2 DEF InOrder
<1> HIDE DEF s
<1>4. s \in Seq(S) /\ Len(s) = c
  BY <1>1, <1>2, <1>3
<1>5. ToSet(s) = S
  <2> SUFFICES ASSUME NEW i \in S PROVE \E n \in 1..c : s[n] = i
    BY <1>2 DEF ToSet
  <2>1. Rank(S, i) \in Nat /\ Rank(S, i) + 1 \in 1..c
    BY <1>1
  <2>2. PICK n \in 1..c : n = Rank(S, i) + 1
    BY <2>1
  <2>3. s[n] \in S /\ Rank(S, s[n]) = Rank(S, i)
    BY <1>2, <2>1, <2>2
  <2>4. ~(i < s[n]) /\ ~(s[n] < i)
    <3>1. i < s[n] => Rank(S, i) < Rank(S, s[n])
      BY <1>1, <2>3
    <3>2. s[n] < i => Rank(S, s[n]) < Rank(S, i)
      BY <1>1, <2>3
    <3> QED BY <2>1, <2>3, <3>1, <3>2
  <2>5. s[n] \in Nat /\ i \in Nat
    BY <2>3
  <2> QED BY <2>4, <2>5
<1>6. Climbs(s)
  <2> SUFFICES ASSUME NEW m \in 1..c, NEW n \in 1..c, m < n PROVE s[m] < s[n]
    BY <1>2 DEF Climbs
  <2>1. s[m] \in S /\ s[n] \in S /\ Rank(S, s[m]) = m - 1 /\ Rank(S, s[n]) = n - 1
    BY <1>2
  <2>2. m - 1 < n - 1 /\ m - 1 \in Int /\ n - 1 \in Int
    BY <1>1
  <2>3. ~(Rank(S, s[n]) < Rank(S, s[m])) /\ Rank(S, s[m]) # Rank(S, s[n])
    BY <2>1, <2>2
  <2>4. ~(s[n] < s[m]) /\ s[m] # s[n]
    BY <1>1, <2>1, <2>3
  <2>5. s[m] \in Nat /\ s[n] \in Nat
    BY <2>1
  <2> QED BY <2>4, <2>5
<1> QED BY <1>4, <1>5, <1>6 DEF s

LEMMA WithoutIs ==
    ASSUME NEW s \in Seq(StockRows), NEW ids
    PROVE  /\ Without(s, ids) \in Seq(StockRows)
           /\ ToSet(Without(s, ids)) = ToSet(s) \ ids
           /\ Climbs(s) => Climbs(Without(s, ids))
<1> DEFINE S == {n \in DOMAIN s : s[n] \notin ids}
           kept == InOrder(S)
           t == Without(s, ids)
<1>1. DOMAIN s = 1..Len(s) /\ Len(s) \in Nat
  OBVIOUS
<1>2. S \in SUBSET Nat /\ IsFiniteSet(S)
  <2>1. S \in SUBSET (1..Len(s)) /\ IsFiniteSet(1..Len(s))
    BY <1>1, FS_Interval
  <2>2. IsFiniteSet(S)
    <3> HIDE DEF S
    <3> QED BY <2>1, FS_Subset
  <2> QED BY <1>1, <2>1, <2>2
<1>3. kept \in Seq(S) /\ ToSet(kept) = S /\ Climbs(kept)
  <2> HIDE DEF S
  <2> QED BY <1>2, OrderIs
<1>4. t = [n \in DOMAIN kept |-> s[kept[n]]]
  BY DEF Without
<1>5. \A n \in DOMAIN kept : kept[n] \in DOMAIN s /\ s[kept[n]] \in StockRows /\ s[kept[n]] \notin ids
  BY <1>3
<1> HIDE DEF kept, t
<1>6. DOMAIN kept = 1..Len(kept) /\ Len(kept) \in Nat
  BY <1>3
<1>7. t \in Seq(StockRows) /\ DOMAIN t = DOMAIN kept /\ \A n \in DOMAIN kept : t[n] = s[kept[n]]
  <2>1. t \in [1..Len(kept) -> StockRows]
    BY <1>4, <1>5, <1>6
  <2> QED BY <1>4, <1>6, <2>1
<1>8. ToSet(t) = ToSet(s) \ ids
  <2>1. \A x \in ToSet(t) : x \in ToSet(s) /\ x \notin ids
    BY <1>5, <1>7 DEF ToSet
  <2>2. ASSUME NEW x \in ToSet(s), x \notin ids PROVE x \in ToSet(t)
    <3>1. PICK n \in S : s[n] = x
      BY <2>2 DEF ToSet
    <3>2. PICK m \in DOMAIN kept : kept[m] = n
      BY <1>3 DEF ToSet
    <3> QED BY <1>7, <3>1, <3>2 DEF ToSet
  <2> QED BY <2>1, <2>2
<1>9. ASSUME Climbs(s) PROVE Climbs(t)
  <2> SUFFICES ASSUME NEW m \in DOMAIN kept, NEW n \in DOMAIN kept, m < n PROVE s[kept[m]] < s[kept[n]]
    BY <1>7 DEF Climbs
  <2>1. kept[m] < kept[n] /\ kept[m] \in DOMAIN s /\ kept[n] \in DOMAIN s
    BY <1>3, <1>5 DEF Climbs
  <2> QED BY <1>9, <2>1 DEF Climbs
<1> QED BY <1>7, <1>8, <1>9 DEF t

LEMMA ConcatIs ==
    ASSUME NEW s \in Seq(StockRows), NEW t \in Seq(StockRows)
    PROVE  /\ ToSet(s \o t) = ToSet(s) \cup ToSet(t)
           /\ Climbs(s) /\ Climbs(t) /\ (\A i \in ToSet(s), j \in ToSet(t) : i < j) => Climbs(s \o t)
<1>1. /\ s \o t \in Seq(StockRows) /\ Len(s \o t) = Len(s) + Len(t)
      /\ Len(s) \in Nat /\ Len(t) \in Nat
      /\ DOMAIN s = 1..Len(s) /\ DOMAIN t = 1..Len(t) /\ DOMAIN (s \o t) = 1..(Len(s) + Len(t))
  OBVIOUS
<1>2. \A n \in 1..Len(s) : (s \o t)[n] = s[n]
  OBVIOUS
<1>3. \A n \in 1..Len(t) : (s \o t)[Len(s) + n] = t[n]
  OBVIOUS
<1>4. \A n \in 1..(Len(s) + Len(t)) : n \in 1..Len(s) \/ (n - Len(s) \in 1..Len(t) /\ Len(s) + (n - Len(s)) = n)
  BY <1>1
<1>5. \A n \in 1..(Len(s) + Len(t)) : n \notin 1..Len(s) => (s \o t)[n] = t[n - Len(s)]
  BY <1>1, <1>3, <1>4
<1>6. ToSet(s \o t) = ToSet(s) \cup ToSet(t)
  <2>1. \A x \in ToSet(s \o t) : x \in ToSet(s) \cup ToSet(t)
    BY <1>1, <1>2, <1>4, <1>5 DEF ToSet
  <2>2. \A x \in ToSet(s) : x \in ToSet(s \o t)
    <3>1. \A n \in 1..Len(s) : n \in 1..(Len(s) + Len(t))
      BY <1>1
    <3> QED BY <1>1, <1>2, <3>1 DEF ToSet
  <2>3. \A x \in ToSet(t) : x \in ToSet(s \o t)
    <3>1. \A n \in 1..Len(t) : Len(s) + n \in 1..(Len(s) + Len(t))
      BY <1>1
    <3> QED BY <1>1, <1>3, <3>1 DEF ToSet
  <2> QED BY <2>1, <2>2, <2>3
<1>7. ASSUME Climbs(s), Climbs(t), \A i \in ToSet(s), j \in ToSet(t) : i < j PROVE Climbs(s \o t)
  <2> SUFFICES ASSUME NEW m \in 1..(Len(s) + Len(t)), NEW n \in 1..(Len(s) + Len(t)), m < n
               PROVE  (s \o t)[m] < (s \o t)[n]
    BY <1>1 DEF Climbs
  <2>1. CASE n \in 1..Len(s)
    <3>1. m \in 1..Len(s)
      BY <1>1, <2>1
    <3> QED BY <1>1, <1>2, <1>7, <2>1, <3>1 DEF Climbs
  <2>2. CASE m \notin 1..Len(s)
    <3>1. n \notin 1..Len(s) /\ m - Len(s) \in 1..Len(t) /\ n - Len(s) \in 1..Len(t) /\ m - Len(s) < n - Len(s)
      BY <1>1, <1>4, <2>2
    <3>2. (s \o t)[m] = t[m - Len(s)] /\ (s \o t)[n] = t[n - Len(s)]
      BY <1>5, <2>2, <3>1
    <3> QED BY <1>1, <1>7, <3>1, <3>2 DEF Climbs
  <2>3. CASE m \in 1..Len(s) /\ n \notin 1..Len(s)
    <3>1. (s \o t)[m] \in ToSet(s)
      BY <1>1, <1>2, <2>3 DEF ToSet
    <3>2. (s \o t)[n] \in ToSet(t)
      BY <1>1, <1>4, <1>5, <2>3 DEF ToSet
    <3> QED BY <1>7, <3>1, <3>2
  <2> QED BY <2>1, <2>2, <2>3
<1> QED BY <1>6, <1>7

\* The first rows of a list: those before one of them are among them, and if there
\* are not as many as a page holds they are the whole list.
LEMMA FirstIs ==
    ASSUME NEW A \in SUBSET Nat, IsFiniteSet(A), NEW F, F = {i \in A : Rank(A, i) < PerPage}
    PROVE  /\ \A i \in A, j \in F : i < j => i \in F
           /\ Cardinality(F) # PerPage => F = A
<1>1. /\ Cardinality(A) \in Nat /\ PerPage \in Nat \ {0}
      /\ \A i \in A : Rank(A, i) \in 0..(Cardinality(A) - 1)
      /\ \A i, j \in A : i < j => Rank(A, i) < Rank(A, j)
      /\ \A n \in 0..(Cardinality(A) - 1) : \E i \in A : Rank(A, i) = n
  BY RankIs, StockPageAssumption
<1>2. \A i \in A, j \in F : i < j => i \in F
  <2> SUFFICES ASSUME NEW i \in A, NEW j \in F, i < j PROVE Rank(A, i) < PerPage
    OBVIOUS
  <2>1. j \in A /\ Rank(A, j) < PerPage /\ Rank(A, i) < Rank(A, j)
    BY <1>1
  <2>2. Rank(A, i) \in Nat /\ Rank(A, j) \in Nat
    BY <1>1, <2>1
  <2> QED BY <1>1, <2>1, <2>2
<1>3. ASSUME F # A PROVE Cardinality(F) = PerPage
  <2>1. PICK w \in A : ~(Rank(A, w) < PerPage)
    BY <1>3
  <2>2. PerPage < Cardinality(A)
    BY <1>1, <2>1
  <2> DEFINE rank == [i \in F |-> Rank(A, i)]
             T == 0..(PerPage - 1)
  <2>3. \A i \in F : Rank(A, i) \in T
    BY <1>1
  <2>4. \A i, j \in F : i # j => Rank(A, i) # Rank(A, j)
    <3> SUFFICES ASSUME NEW i \in F, NEW j \in F, i # j PROVE Rank(A, i) # Rank(A, j)
      OBVIOUS
    <3>1. i < j \/ j < i
      OBVIOUS
    <3>2. Rank(A, i) \in Nat /\ Rank(A, j) \in Nat
      BY <1>1
    <3> QED BY <1>1, <3>1, <3>2
  <2>5. \A n \in T : \E i \in F : Rank(A, i) = n
    <3> SUFFICES ASSUME NEW n \in T PROVE \E i \in F : Rank(A, i) = n
      OBVIOUS
    <3>1. n \in 0..(Cardinality(A) - 1) /\ n < PerPage
      BY <1>1, <2>2
    <3> QED BY <1>1, <3>1
  <2>6. rank \in Bijection(F, T)
    BY <2>3, <2>4, <2>5 DEF Bijection, Injection, IsInjective, Surjection
  <2>7. IsFiniteSet(T) /\ Cardinality(T) = PerPage
    <3>1. Cardinality(0..(PerPage - 1)) = IF 0 > PerPage - 1 THEN 0 ELSE (PerPage - 1) - 0 + 1
      BY <1>1, FS_Interval
    <3> QED BY <1>1, <3>1, FS_Interval
  <2>8. IsFiniteSet(F)
    BY FS_Subset
  <2> QED BY <2>6, <2>7, <2>8, FS_Bijection DEF ExistsBijection
<1> QED BY <1>2, <1>3

-----------------------------------------------------------------------------
(* The list keeps to the server's.                                         *)

LEMMA AfterIs ==
    ASSUME StockPageTypeOK, NEW v \in Views, NEW c
    PROVE  /\ After(v, c) \in SUBSET Nat /\ IsFiniteSet(After(v, c))
           /\ After(v, c) \subseteq StockRows /\ After(v, c) \subseteq Listing[v] \cap present
<1>1. After(v, c) \subseteq StockRows /\ After(v, c) \subseteq Listing[v] \cap present
  BY DEF StockPageTypeOK, After
<1> QED BY <1>1, StockPageAssumption, FS_Subset

LEMMA PageIsNext ==
    ASSUME StockPageTypeOK, NEW v \in Views, NEW c, NEW p, p = PageAt(v, c)
    PROVE  /\ p \in Seq(StockRows) /\ Climbs(p) /\ ToSet(p) \subseteq After(v, c)
           /\ IF Len(p) = PerPage
              THEN \A i \in After(v, c) : i <= Last(p) => i \in ToSet(p)
              ELSE After(v, c) \subseteq ToSet(p)
<1> DEFINE A == After(v, c)
           F == {i \in A : Rank(A, i) < PerPage}
<1>1. A \in SUBSET Nat /\ IsFiniteSet(A) /\ A \subseteq StockRows
  BY AfterIs
<1>2. p = InOrder(F)
  BY DEF PageAt
<1> HIDE DEF A
<1>3. F \in SUBSET Nat /\ F \subseteq A /\ IsFiniteSet(F)
  <2>1. F \subseteq A
    OBVIOUS
  <2> HIDE DEF F
  <2> QED BY <1>1, <2>1, FS_Subset
<1>4. /\ \A i \in A, j \in F : i < j => i \in F
      /\ Cardinality(F) # PerPage => F = A
  <2>1. \E G : G = F
    OBVIOUS
  <2> QED BY <1>1, FirstIs
<1> HIDE DEF F
<1>5. p \in Seq(F) /\ Len(p) = Cardinality(F) /\ ToSet(p) = F /\ Climbs(p)
  BY <1>2, <1>3, OrderIs
<1>6. p \in Seq(StockRows)
  <2>1. F \subseteq StockRows
    BY <1>1, <1>3
  <2> QED BY <1>5, <2>1
<1>7. ASSUME Len(p) = PerPage, NEW i \in A, i <= Last(p) PROVE i \in F
  <2>1. Last(p) \in F
    <3>1. PerPage \in 1..Len(p)
      BY <1>7, StockPageAssumption
    <3> QED BY <1>5, <1>7, <3>1 DEF Last
  <2>2. i \in Nat /\ Last(p) \in Nat
    BY <1>1, <1>3, <2>1
  <2>3. i < Last(p) \/ i = Last(p)
    BY <1>7, <2>2
  <2> QED BY <1>4, <2>1, <2>3
<1> QED BY <1>3, <1>4, <1>5, <1>6, <1>7 DEF A

LEMMA RequestIs ==
    ASSUME NEW v \in Views, NEW c \in StockRows \cup {Nothing}, NEW q, q = Request(v, c)
    PROVE  q \in PageCall /\ q # Nothing /\ q.view = v /\ q.cursor = c /\ ~q.served
<1>1. <<>> \in Seq(StockRows)
  OBVIOUS
<1>2. q \in PageCall
  BY <1>1 DEF Request, PageCall
<1> QED BY <1>2, StockPageAssumption DEF Request

LEMMA ListInitInv == ASSUME StockPageInit PROVE ListInv
<1>1. PICK s \in Fetches : fetching = [t \in Fetches |-> IF t = s THEN Request(filter, Nothing) ELSE Nothing]
  BY DEF StockPageInit
<1>2. Request(filter, Nothing) \in PageCall /\ Request(filter, Nothing) # Nothing
  BY RequestIs DEF StockPageInit
<1>3. fetching \in [Fetches -> PageCall \cup {Nothing}]
  BY <1>1, <1>2
<1>4. InFlight = {s} /\ fetching[s] = Request(filter, Nothing)
  BY <1>1, <1>2 DEF InFlight
<1>5. StockPageTypeOK
  <2>1. loaded = <<>> /\ loaded \in Seq(StockRows)
    BY DEF StockPageInit
  <2>2. bulks \in [Bulks -> BulkCall \cup {Nothing}]
    BY DEF StockPageInit
  <2> QED BY <1>3, <2>1, <2>2 DEF StockPageInit, StockPageTypeOK
<1>6. DeletesServed
  BY DEF StockPageInit, DeletesServed
<1>7. OneAsked /\ NextPage
  BY <1>4 DEF StockPageInit, OneAsked, NextPage, Request
<1>8. ShownToCursor
  BY <1>4 DEF StockPageInit, ShownToCursor, Climbs, Shown, ToSet
<1> QED BY <1>5, <1>6, <1>7, <1>8 DEF ListInv

\* The list begins anew.
LEMMA BeginInv ==
    ASSUME ListInv, NEW s \in Fetches, NEW v \in Views, Begin(s, v), UNCHANGED present,
           bulks' \in [Bulks -> BulkCall \cup {Nothing}], DeletesServed'
    PROVE  ListInv'
<1>1. Request(v, Nothing) \in PageCall /\ Request(v, Nothing) # Nothing
  BY RequestIs
<1>2. /\ fetching' \in [Fetches -> PageCall \cup {Nothing}]
      /\ fetching'[s] = Request(v, Nothing) /\ \A t \in Fetches \ {s} : fetching'[t] = fetching[t]
  BY <1>1 DEF Begin, ListInv, StockPageTypeOK
<1>3. StockPageTypeOK'
  <2>1. mixed' \in BOOLEAN
    BY DEF Begin
  <2>2. loaded' = <<>> /\ loaded' \in Seq(StockRows)
    BY DEF Begin
  <2> QED BY <1>2, <2>1, <2>2 DEF Begin, Cleared, ListInv, StockPageTypeOK
<1>4. ASSUME ~mixed' PROVE OneAsked' /\ NextPage' /\ ShownToCursor'
  <2>1. InFlight = {}
    BY <1>4 DEF Begin
  <2>2. InFlight' = {s}
    BY <1>1, <1>2, <2>1 DEF InFlight
  <2>3. OneAsked' /\ NextPage'
    BY <1>2, <2>2 DEF Begin, OneAsked, NextPage, Request
  <2>4. ShownToCursor'
    BY <2>2 DEF Begin, ShownToCursor, Climbs, Shown, ToSet
  <2> QED BY <2>3, <2>4
<1> QED BY <1>3, <1>4 DEF ListInv

LEMMA BulkGone ==
    ASSUME ListInv, NEW b \in Bulks, bulks' = [bulks EXCEPT ![b] = Nothing], UNCHANGED present
    PROVE  bulks' \in [Bulks -> BulkCall \cup {Nothing}] /\ DeletesServed'
  BY DEF ListInv, StockPageTypeOK, DeletesServed

LEMMA LoadMoreInv == ASSUME ListInv, NEW s \in Fetches, LoadMore(s) PROVE ListInv'
<1>1. Request(filter, nextCursor) \in PageCall /\ Request(filter, nextCursor) # Nothing
  BY RequestIs DEF ListInv, StockPageTypeOK
<1>2. /\ fetching' \in [Fetches -> PageCall \cup {Nothing}]
      /\ fetching'[s] = Request(filter, nextCursor) /\ \A t \in Fetches \ {s} : fetching'[t] = fetching[t]
  BY <1>1 DEF LoadMore, ListInv, StockPageTypeOK
<1>3. StockPageTypeOK' /\ DeletesServed'
  BY <1>2 DEF LoadMore, ListInv, StockPageTypeOK, DeletesServed
<1>4. ASSUME ~mixed' PROVE OneAsked' /\ NextPage' /\ ShownToCursor'
  <2>1. InFlight = {} /\ nextCursor # Nothing /\ OneAsked /\ ShownToCursor
    BY <1>4 DEF LoadMore, MayLoadMore, ListInv, OneAsked
  <2>2. InFlight' = {s}
    BY <1>1, <1>2, <2>1 DEF InFlight
  <2>3. OneAsked' /\ NextPage'
    BY <1>2, <2>2 DEF LoadMore, OneAsked, NextPage, Request
  <2>4. ShownToCursor'
    BY <2>1 DEF LoadMore, ShownToCursor, Climbs, Shown, There, After
  <2> QED BY <2>3, <2>4
<1> QED BY <1>3, <1>4 DEF ListInv

LEMMA ServePageInv == ASSUME ListInv, NEW s \in Fetches, ServePage(s) PROVE ListInv'
<1> DEFINE v == fetching[s].view
           c == fetching[s].cursor
           r == [fetching[s] EXCEPT !.served = TRUE, !.page = PageAt(v, c)]
<1>1. fetching[s] \in PageCall /\ v \in Views /\ c \in StockRows \cup {Nothing} /\ s \in InFlight
  BY DEF ServePage, ListInv, StockPageTypeOK, PageCall, InFlight
<1>2. StockPageTypeOK
  BY DEF ListInv
<1>3. /\ PageAt(v, c) \in Seq(StockRows) /\ Climbs(PageAt(v, c)) /\ ToSet(PageAt(v, c)) \subseteq After(v, c)
      /\ IF Len(PageAt(v, c)) = PerPage
         THEN \A i \in After(v, c) : i <= Last(PageAt(v, c)) => i \in ToSet(PageAt(v, c))
         ELSE After(v, c) \subseteq ToSet(PageAt(v, c))
  <2> HIDE DEF v, c
  <2> QED BY <1>1, <1>2, PageIsNext
<1>4. r \in PageCall /\ r.view = v /\ r.cursor = c /\ r.served /\ r.page = PageAt(v, c)
  BY <1>1, <1>3 DEF PageCall
<1>5. r # Nothing
  BY <1>4, StockPageAssumption
<1>6. fetching' = [fetching EXCEPT ![s] = r]
  BY DEF ServePage
<1> HIDE DEF r
<1>7. /\ fetching' \in [Fetches -> PageCall \cup {Nothing}]
      /\ fetching'[s] = r /\ \A t \in Fetches \ {s} : fetching'[t] = fetching[t]
  BY <1>4, <1>6 DEF ListInv, StockPageTypeOK
<1>8. InFlight' = InFlight
  BY <1>1, <1>5, <1>7 DEF InFlight
<1>9. UNCHANGED <<present, filter, loaded, nextCursor, isLoading, selected, showBulkEdit, bulks, mixed, unread>>
  BY DEF ServePage, listVars
<1>10. StockPageTypeOK' /\ DeletesServed'
  BY <1>7, <1>9 DEF ListInv, StockPageTypeOK, DeletesServed
<1>11. ASSUME ~mixed' PROVE OneAsked' /\ NextPage' /\ ShownToCursor'
  <2>1. OneAsked /\ ShownToCursor
    BY <1>9, <1>11 DEF ListInv
  <2>2. v = filter /\ c = nextCursor /\ InFlight = {s}
    BY <1>1, <2>1 DEF OneAsked
  <2>3. OneAsked'
    BY <1>4, <1>7, <1>8, <1>9, <2>1, <2>2 DEF OneAsked
  <2>4. Continues(r.page, nextCursor)
    <3>1. ToSet(r.page) \subseteq Listing[filter]
      BY <1>1, <1>3, <1>4, <2>2, <1>2, AfterIs
    <3>2. nextCursor # Nothing => \A i \in ToSet(r.page) : nextCursor < i
      BY <1>3, <1>4, <2>2 DEF After
    <3> QED BY <1>3, <1>4, <2>2, <3>1, <3>2 DEF Continues
  <2>5. NextPage'
    BY <1>7, <1>8, <1>9, <2>2, <2>4 DEF NextPage, Continues, After
  <2>6. ShownToCursor'
    BY <1>8, <1>9, <2>1 DEF ShownToCursor, Climbs, Shown, There, After
  <2> QED BY <2>3, <2>5, <2>6
<1> QED BY <1>10, <1>11 DEF ListInv

\* An answer that comes or fails to leaves the others on their way.
LEMMA FetchGone ==
    ASSUME ListInv, NEW s \in Fetches, fetching[s] # Nothing, fetching' = [fetching EXCEPT ![s] = Nothing]
    PROVE  /\ fetching' \in [Fetches -> PageCall \cup {Nothing}]
           /\ fetching[s] \in PageCall /\ s \in InFlight
           /\ OneAsked => InFlight' = {}
<1>1. /\ fetching' \in [Fetches -> PageCall \cup {Nothing}]
      /\ fetching[s] \in PageCall /\ s \in InFlight
      /\ fetching'[s] = Nothing /\ \A t \in Fetches \ {s} : fetching'[t] = fetching[t]
  BY DEF ListInv, StockPageTypeOK, InFlight
<1> QED BY <1>1 DEF OneAsked, InFlight

LEMMA ReceivePageInv == ASSUME ListInv, NEW s \in Fetches, ReceivePage(s) PROVE ListInv'
<1> DEFINE p == fetching[s].page
<1>1. /\ fetching' \in [Fetches -> PageCall \cup {Nothing}]
      /\ fetching[s] \in PageCall /\ s \in InFlight /\ fetching[s].served
      /\ OneAsked => InFlight' = {}
  BY FetchGone DEF ReceivePage
<1>2. p \in Seq(StockRows) /\ loaded \in Seq(StockRows) /\ loaded' = loaded \o p
  BY <1>1 DEF ReceivePage, PageCall, ListInv, StockPageTypeOK
<1>3. Len(p) = PerPage => Last(p) \in ToSet(p) /\ Last(p) \in StockRows
  <2> HIDE DEF p
  <2> SUFFICES ASSUME Len(p) = PerPage PROVE Last(p) \in ToSet(p) /\ Last(p) \in StockRows
    OBVIOUS
  <2>1. Len(p) \in DOMAIN p
    BY <1>2, StockPageAssumption
  <2> QED BY <1>2, <2>1 DEF Last, ToSet
<1>4. nextCursor' = IF Len(p) = PerPage THEN Last(p) ELSE Nothing
  BY DEF ReceivePage, CursorOf
<1>5. UNCHANGED <<present, filter, selected, showBulkEdit, bulks, mixed, unread>> /\ isLoading' = FALSE
  BY DEF ReceivePage
<1> HIDE DEF p
<1>6. loaded' \in Seq(StockRows) /\ nextCursor' \in StockRows \cup {Nothing}
  BY <1>2, <1>3, <1>4
<1>7. StockPageTypeOK' /\ DeletesServed'
  BY <1>1, <1>5, <1>6 DEF ListInv, StockPageTypeOK, DeletesServed
<1>8. ASSUME ~mixed' PROVE OneAsked' /\ NextPage' /\ ShownToCursor'
  <2>1. OneAsked /\ NextPage /\ ShownToCursor /\ InFlight' = {}
    BY <1>1, <1>5, <1>8 DEF ListInv
  <2>2. OneAsked' /\ NextPage'
    BY <2>1 DEF OneAsked, NextPage
  <2>3. Continues(p, nextCursor)
    BY <1>1, <2>1 DEF NextPage, p
  <2>4. Shown \subseteq StockRows /\ ToSet(p) \subseteq StockRows /\ StockRows \subseteq Nat
    BY <1>2, StockPageAssumption DEF Shown, ToSet
  <2>5. \A i \in Shown, j \in ToSet(p) : i < j
    <3>1. CASE nextCursor = Nothing
      <4>1. loaded = <<>>
        BY <1>1, <2>1, <3>1 DEF ShownToCursor
      <4> QED BY <4>1 DEF Shown, ToSet
    <3>2. CASE nextCursor # Nothing
      <4>1. nextCursor \in Nat
        BY <3>2, StockPageAssumption DEF ListInv, StockPageTypeOK
      <4>2. \A i \in Shown : i <= nextCursor
        BY <2>1, <3>2 DEF ShownToCursor
      <4>3. \A j \in ToSet(p) : nextCursor < j
        BY <2>3, <3>2 DEF Continues
      <4> SUFFICES ASSUME NEW i \in Shown, NEW j \in ToSet(p) PROVE i < j
        OBVIOUS
      <4>4. i \in Nat /\ j \in Nat /\ i <= nextCursor /\ nextCursor < j
        BY <2>4, <4>2, <4>3
      <4> QED BY <4>1, <4>4
    <3> QED BY <3>1, <3>2
  <2>6. Shown' = Shown \cup ToSet(p) /\ Climbs(loaded)'
    <3>1. Climbs(loaded) /\ Climbs(p)
      BY <2>1, <2>3 DEF ShownToCursor, Continues
    <3>2. ToSet(loaded \o p) = ToSet(loaded) \cup ToSet(p) /\ Climbs(loaded \o p)
      BY <1>2, <2>5, <3>1, ConcatIs DEF Shown
    <3> QED BY <1>2, <3>2 DEF Shown, Climbs
  <2>7. Shown' \subseteq Listing[filter]
    BY <2>1, <2>3, <2>6 DEF ShownToCursor, Continues
  <2>8. There' = There
    BY <1>5 DEF There, After
  <2>9. There \subseteq Shown \cup After(filter, nextCursor)
    <3>1. CASE nextCursor = Nothing
      BY <3>1 DEF There
    <3>2. CASE nextCursor # Nothing
      <4>1. \A i \in There : i <= nextCursor => i \in Shown
        BY <2>1, <3>2 DEF ShownToCursor
      <4>2. nextCursor \in Nat /\ There \subseteq Nat
        BY <3>2, StockPageAssumption DEF ListInv, StockPageTypeOK, There, After
      <4>3. \A i \in There : i <= nextCursor \/ nextCursor < i
        BY <4>2
      <4> QED BY <4>1, <4>3 DEF There, After
    <3> QED BY <3>1, <3>2
  <2>10. CASE Len(p) = PerPage
    <3>1. nextCursor' = Last(p) /\ nextCursor' # Nothing /\ Last(p) \in ToSet(p)
      BY <1>3, <1>4, <2>10, StockPageAssumption
    <3>2. \A i \in ToSet(p) : i <= Last(p)
      <4> SUFFICES ASSUME NEW i \in ToSet(p) PROVE i <= Last(p)
        OBVIOUS
      <4>1. PICK n \in DOMAIN p : p[n] = i
        BY DEF ToSet
      <4>2. n = Len(p) \/ n < Len(p)
        BY <1>2
      <4>3. Len(p) \in DOMAIN p
        BY <1>2, <2>10, StockPageAssumption
      <4>4. n < Len(p) => p[n] < p[Len(p)]
        BY <2>3, <4>3 DEF Continues, Climbs
      <4>5. i \in Nat /\ Last(p) \in Nat
        BY <2>4, <3>1
      <4> QED BY <4>1, <4>2, <4>4, <4>5 DEF Last
    <3>3. \A i \in Shown : i <= Last(p)
      <4>1. Last(p) \in Nat /\ Shown \subseteq Nat
        BY <2>4, <3>1
      <4> QED BY <2>5, <3>1, <4>1
    <3>4. \A i \in There : i <= Last(p) => i \in Shown \cup ToSet(p)
      BY <2>3, <2>9, <2>10 DEF Continues
    <3>5. ShownToCursor'
      BY <1>5, <2>6, <2>7, <2>8, <3>1, <3>2, <3>3, <3>4 DEF ShownToCursor
    <3> QED BY <2>2, <3>5
  <2>11. CASE Len(p) # PerPage
    <3>1. nextCursor' = Nothing
      BY <1>4, <2>11
    <3>2. There \subseteq Shown \cup ToSet(p)
      BY <2>3, <2>9, <2>11 DEF Continues
    <3>3. ShownToCursor'
      BY <1>5, <2>1, <2>6, <2>7, <2>8, <3>1, <3>2 DEF ShownToCursor
    <3> QED BY <2>2, <3>3
  <2> QED BY <2>10, <2>11
<1> QED BY <1>7, <1>8 DEF ListInv

LEMMA FetchFailsInv == ASSUME ListInv, NEW s \in Fetches, FetchFails(s) PROVE ListInv'
<1>1. /\ fetching' \in [Fetches -> PageCall \cup {Nothing}]
      /\ fetching[s] \in PageCall /\ s \in InFlight
      /\ OneAsked => InFlight' = {}
  BY FetchGone DEF FetchFails
<1>2. /\ UNCHANGED <<present, filter, loaded, nextCursor, selected, showBulkEdit, bulks, mixed>>
      /\ isLoading' = FALSE /\ unread' = (unread \/ fetching[s].cursor = Nothing)
  BY DEF FetchFails
<1>3. StockPageTypeOK' /\ DeletesServed'
  <2>1. unread' \in BOOLEAN
    BY <1>2 DEF ListInv, StockPageTypeOK
  <2> QED BY <1>1, <1>2, <2>1 DEF ListInv, StockPageTypeOK, DeletesServed
<1>4. ASSUME ~mixed' PROVE OneAsked' /\ NextPage' /\ ShownToCursor'
  <2>1. OneAsked /\ ShownToCursor /\ InFlight' = {}
    BY <1>1, <1>2, <1>4 DEF ListInv
  <2>2. OneAsked' /\ NextPage'
    BY <2>1 DEF OneAsked, NextPage
  <2>3. fetching[s].cursor = nextCursor
    BY <1>1, <2>1 DEF OneAsked
  <2>4. Climbs(loaded)' /\ Shown' = Shown /\ There' = There
    BY <1>2, <2>1 DEF Shown, There, After, Climbs, ShownToCursor
  <2>5. ShownToCursor'
    BY <1>1, <1>2, <2>1, <2>3, <2>4 DEF ShownToCursor
  <2> QED BY <2>2, <2>5
<1> QED BY <1>3, <1>4 DEF ListInv

\* Rows go, whoever takes them: what is shown is still the list up to its cursor.
LEMMA RowsGo ==
    ASSUME ListInv, present' \subseteq present,
           UNCHANGED <<filter, loaded, nextCursor, isLoading, fetching, mixed, unread>>, ~mixed'
    PROVE  OneAsked' /\ NextPage' /\ ShownToCursor'
<1>1. OneAsked /\ NextPage /\ ShownToCursor
  BY DEF ListInv
<1>2. InFlight' = InFlight /\ Shown' = Shown
  BY DEF InFlight, Shown
<1>3. OneAsked'
  BY <1>1, <1>2 DEF OneAsked
<1>4. \A c : {i \in Listing[filter] \cap present' : c = Nothing \/ c < i} \subseteq After(filter, c)
  BY DEF After
<1>5. NextPage'
  <2> SUFFICES ASSUME NEW s \in InFlight, fetching[s].served
               PROVE  Continues(fetching[s].page, nextCursor)'
    BY <1>2 DEF NextPage
  <2>1. Continues(fetching[s].page, nextCursor)
    BY <1>1 DEF NextPage
  <2>2. After(filter, nextCursor)' \subseteq After(filter, nextCursor)
    BY DEF After
  <2> QED BY <2>1, <2>2 DEF Continues, Climbs
<1>6. ShownToCursor'
  <2>1. There' \subseteq There
    BY DEF There, After
  <2> QED BY <1>1, <1>2, <2>1 DEF ShownToCursor, Climbs
<1> QED BY <1>3, <1>5, <1>6

LEMMA DeleteDoneInv == ASSUME ListInv, NEW b \in Bulks, DeleteDone(b) PROVE ListInv'
<1> DEFINE ids == bulks[b].ids
<1>1. ids \cap present = {}
  BY DEF DeleteDone, ListInv, DeletesServed
<1>2. bulks' \in [Bulks -> BulkCall \cup {Nothing}] /\ DeletesServed'
  BY BulkGone DEF DeleteDone
<1>3. /\ UNCHANGED <<present, filter, nextCursor, isLoading, showBulkEdit, fetching, mixed, unread>>
      /\ selected' = {} /\ loaded' = Without(loaded, ids)
  BY DEF DeleteDone
<1> HIDE DEF ids
<1>4. /\ loaded \in Seq(StockRows) /\ loaded' \in Seq(StockRows) /\ Shown' = Shown \ ids
      /\ Climbs(loaded) => Climbs(Without(loaded, ids))
  <2>1. loaded \in Seq(StockRows)
    BY DEF ListInv, StockPageTypeOK
  <2> QED BY <1>3, <2>1, WithoutIs DEF Shown
<1>5. StockPageTypeOK'
  BY <1>2, <1>3, <1>4 DEF ListInv, StockPageTypeOK
<1>6. ASSUME ~mixed' PROVE OneAsked' /\ NextPage' /\ ShownToCursor'
  <2>1. OneAsked /\ NextPage /\ ShownToCursor
    BY <1>3, <1>6 DEF ListInv
  <2>2. InFlight' = InFlight /\ There' = There /\ There \cap ids = {}
    BY <1>1, <1>3 DEF InFlight, There, After
  <2>3. OneAsked' /\ NextPage'
    BY <1>3, <2>1, <2>2 DEF OneAsked, NextPage, Continues, Climbs, After
  <2>4. Climbs(loaded)'
    BY <1>3, <1>4, <2>1 DEF ShownToCursor, Climbs
  <2>5. loaded = <<>> => loaded' = <<>>
    <3> SUFFICES ASSUME loaded = <<>> PROVE loaded' = <<>>
      OBVIOUS
    <3>1. Shown = {}
      BY DEF Shown, ToSet
    <3>2. Shown' = {}
      BY <1>4, <3>1
    <3>3. DOMAIN loaded' = {}
      BY <3>2 DEF Shown, ToSet
    <3> QED BY <1>4, <3>3
  <2>6. ShownToCursor'
    BY <1>3, <1>4, <2>1, <2>2, <2>4, <2>5 DEF ShownToCursor
  <2> QED BY <2>3, <2>6
<1> QED BY <1>2, <1>5, <1>6 DEF ListInv

LEMMA SubmitBulkInv ==
    ASSUME ListInv, NEW b \in Bulks, NEW op \in {"delete", "edit"}, SubmitBulk(b, op)
    PROVE  ListInv'
<1> DEFINE r == [op |-> op, ids |-> selected, served |-> FALSE]
<1>1. r \in BulkCall /\ ~r.served
  BY DEF BulkCall, ListInv, StockPageTypeOK
<1>2. UNCHANGED <<present, filter, loaded, nextCursor, isLoading, selected, showBulkEdit, fetching, mixed, unread>>
  BY DEF SubmitBulk, listVars
<1>3. bulks' = [bulks EXCEPT ![b] = r]
  BY DEF SubmitBulk
<1> HIDE DEF r
<1>4. StockPageTypeOK' /\ DeletesServed'
  BY <1>1, <1>2, <1>3 DEF ListInv, StockPageTypeOK, DeletesServed
<1> QED BY <1>2, <1>4, RowsGo DEF ListInv

LEMMA ServeBulkInv == ASSUME ListInv, NEW b \in Bulks, ServeBulk(b) PROVE ListInv'
<1> DEFINE r == [bulks[b] EXCEPT !.served = TRUE]
<1>1. bulks[b] \in BulkCall /\ bulks[b] # Nothing
  BY DEF ServeBulk, ListInv, StockPageTypeOK
<1>2. r \in BulkCall /\ r.ids = bulks[b].ids /\ r.op = bulks[b].op
  BY <1>1 DEF BulkCall
<1>3. UNCHANGED <<filter, loaded, nextCursor, isLoading, selected, showBulkEdit, fetching, mixed, unread>>
  BY DEF ServeBulk, listVars
<1>4. /\ bulks' = [bulks EXCEPT ![b] = r]
      /\ present' = IF bulks[b].op = "delete" THEN present \ bulks[b].ids ELSE present
  BY DEF ServeBulk
<1> HIDE DEF r
<1>5. present' \subseteq present
  BY <1>4
<1>6. StockPageTypeOK'
  BY <1>2, <1>3, <1>4, <1>5 DEF ListInv, StockPageTypeOK
<1>7. DeletesServed'
  <2> SUFFICES ASSUME NEW d \in Bulks, bulks'[d] # Nothing, bulks'[d].served, bulks'[d].op = "delete"
               PROVE  bulks'[d].ids \cap present' = {}
    BY DEF DeletesServed
  <2>1. CASE d = b
    <3>1. bulks'[b] = r
      BY <1>4 DEF ListInv, StockPageTypeOK
    <3> QED BY <1>2, <1>4, <2>1, <3>1
  <2>2. CASE d # b
    <3>1. bulks'[d] = bulks[d]
      BY <1>4, <2>2 DEF ListInv, StockPageTypeOK
    <3> QED BY <1>5, <3>1 DEF ListInv, DeletesServed
  <2> QED BY <2>1, <2>2
<1> QED BY <1>3, <1>5, <1>6, <1>7, RowsGo DEF ListInv

LEMMA RowVanishesInv == ASSUME ListInv, NEW i \in StockRows, RowVanishes(i) PROVE ListInv'
<1>1. /\ UNCHANGED <<filter, loaded, nextCursor, isLoading, selected, showBulkEdit, fetching, bulks, mixed, unread>>
      /\ present' \subseteq present
  BY DEF RowVanishes, listVars
<1>2. StockPageTypeOK' /\ DeletesServed'
  BY <1>1 DEF ListInv, StockPageTypeOK, DeletesServed
<1> QED BY <1>1, <1>2, RowsGo DEF ListInv

LEMMA SelectionInv ==
    ASSUME ListInv, selected' \subseteq StockRows, showBulkEdit' \in BOOLEAN,
           UNCHANGED <<present, filter, loaded, nextCursor, isLoading, fetching, mixed, unread>>,
           bulks' \in [Bulks -> BulkCall \cup {Nothing}], DeletesServed'
    PROVE  ListInv'
<1>1. StockPageTypeOK'
  BY DEF ListInv, StockPageTypeOK
<1> QED BY <1>1, RowsGo DEF ListInv

LEMMA ListNextInv == ASSUME ListInv, [Next]_vars PROVE ListInv'
<1>1. filter \in Views /\ Shown \subseteq StockRows /\ selected \subseteq StockRows /\ showBulkEdit \in BOOLEAN
  BY DEF ListInv, StockPageTypeOK, Shown, ToSet
<1>2. UNCHANGED <<present, bulks>> => bulks' \in [Bulks -> BulkCall \cup {Nothing}] /\ DeletesServed'
  BY DEF ListInv, StockPageTypeOK, DeletesServed
<1>3. CASE UNCHANGED stockPageVars
  BY <1>1, <1>2, <1>3, SelectionInv DEF stockPageVars, listVars
<1>4. CASE Browse
  <2>1. ASSUME NEW s \in Fetches, NEW v \in Views, ChangeFilter(s, v) PROVE ListInv'
    BY <1>2, <2>1, BeginInv DEF ChangeFilter
  <2>2. ASSUME NEW i \in StockRows, ToggleSelect(i) PROVE ListInv'
    <3>1. selected' \subseteq StockRows
      BY <1>1, <2>2 DEF ToggleSelect
    <3> QED BY <1>1, <1>2, <2>2, <3>1, SelectionInv DEF ToggleSelect, listVars
  <2>3. ASSUME SelectAll \/ ClearSelection \/ ToggleEdit PROVE ListInv'
    <3>1. selected' \subseteq StockRows /\ showBulkEdit' \in BOOLEAN
      BY <1>1, <2>3 DEF SelectAll, ClearSelection, ToggleEdit
    <3> QED BY <1>1, <1>2, <2>3, <3>1, SelectionInv DEF SelectAll, ClearSelection, ToggleEdit, listVars
  <2>4. ASSUME NEW b \in Bulks, BulkFails(b) PROVE ListInv'
    BY <1>1, <2>4, BulkGone, SelectionInv DEF BulkFails, listVars
  <2>5. ASSUME NEW b \in Bulks, NEW s \in Fetches, EditDone(b, s) PROVE ListInv'
    BY <1>1, <2>5, BulkGone, BeginInv DEF EditDone
  <2> QED
    BY <1>4, <2>1, <2>2, <2>3, <2>4, <2>5, LoadMoreInv, ServePageInv, ReceivePageInv, FetchFailsInv,
       DeleteDoneInv, SubmitBulkInv, ServeBulkInv, RowVanishesInv
    DEF Browse, StockPageStep
<1> QED
  BY <1>3, <1>4 DEF Next, Edit, Delete, Import, Export, Read, Reconcile, Stop, vars, clientVars

\* What the inventory page shows is the beginning of the server's list in its order,
\* each row once, without a gap where a row still exists, and all of it when the
\* page asks for no more: for any number of rows and any size of a page, whatever is
\* deleted, by whom, and whichever requests fail, unless the list was begun while
\* another page was on its way.
THEOREM ListsAreFaithful == Spec => []ListFaithful
<1>1. Init => ListInv
  BY ListInitInv DEF Init
<1>2. ListInv /\ [Next]_vars => ListInv'
  BY ListNextInv
<1>3. ListInv => ListFaithful
  <2> SUFFICES ASSUME ListInv, ~mixed
               PROVE  /\ Shown \subseteq Listing[filter]
                      /\ \A m, n \in DOMAIN loaded : m < n => loaded[m] < loaded[n]
                      /\ \A i \in Shown : {j \in There : j < i} \subseteq Shown
                      /\ InFlight = {} /\ nextCursor = Nothing /\ ~unread => There \subseteq Shown
    BY DEF ListFaithful, There, After
  <2>1. ShownToCursor /\ Shown \subseteq Nat /\ There \subseteq Nat
    BY StockPageAssumption DEF ListInv, StockPageTypeOK, Shown, There, After, ToSet
  <2>2. ASSUME NEW i \in Shown, NEW j \in There, j < i PROVE j \in Shown
    <3>1. CASE nextCursor # Nothing
      <4>1. nextCursor \in Nat /\ i <= nextCursor /\ i \in Nat /\ j \in Nat
        BY <2>1, <3>1, StockPageAssumption DEF ListInv, StockPageTypeOK, ShownToCursor
      <4>2. j <= nextCursor
        BY <2>2, <4>1
      <4> QED BY <2>1, <3>1, <4>2 DEF ShownToCursor
    <3>2. CASE nextCursor = Nothing
      <4>1. loaded # <<>>
        BY <2>2 DEF Shown, ToSet
      <4> QED BY <2>1, <3>2, <4>1 DEF ShownToCursor
    <3> QED BY <3>1, <3>2
  <2>3. InFlight = {} /\ nextCursor = Nothing /\ ~unread => There \subseteq Shown
    BY <2>1 DEF ShownToCursor
  <2> QED BY <2>1, <2>2, <2>3 DEF ShownToCursor, Climbs
<1> QED BY <1>1, <1>2, <1>3, PTL DEF Spec
=============================================================================
