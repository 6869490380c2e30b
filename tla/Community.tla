------------------------------- MODULE Community -------------------------------
(***************************************************************************)
(* The community of one coin (src/domains/coins/coin-community.service.ts):*)
(* posts, comments, likes and votes, in memory only.  A request is         *)
(* authenticated before its handler, which runs in one piece, so that the  *)
(* account may be deleted between the two (deleteUserAccount of            *)
(* auth.service).  Somebody walks through the posts, page by page, and     *)
(* blocks and unblocks their authors on the way.                           *)
(*                                                                         *)
(* Left out: the order by likes or comments and the filters by tag, what   *)
(* is written, names of authors, and the direction of a vote.              *)
(***************************************************************************)
EXTENDS Naturals, SequencesExt

CONSTANTS
  User, Nobody,     \* Nobody: deletedCommunityAuthor
  Capacity,         \* posts kept
  Limit,            \* posts on a page
  MaxRequests       \* bound of the model

CommunityAssumption == Nobody \notin User /\ Capacity \in Nat /\ Limit \in Nat

VARIABLES
  posts,        \* postsBySymbol: the newest first
  made,         \* posts made so far, which are their ids
  requests,     \* requests so far
  commented,    \* commentsByItemId: who commented on what
  liked,        \* likesByItemId
  voted,        \* votesBySymbol and sentimentVotesByScope
  admitted,     \* users with a request that is authenticated
  deleting,     \* users whose deletion is committed
  forgotten,    \* and those it has taken out of memory
  late,         \* those whose request was handled after that (history)
  blocked,      \* whom the reader blocks
  walk          \* the reader's way through the pages

vars == <<posts, made, requests, commented, liked, voted, admitted, deleting,
          forgotten, late, blocked, walk>>
data == <<posts, made, commented, liked, voted>>

Post   == [id : 1..MaxRequests, author : User \cup {Nobody}]
Mark   == (1..MaxRequests) \X (User \cup {Nobody})
IdsOf(list) == {p.id : p \in ToSet(list)}

NoWalk == [oldest |-> FALSE, begun |-> FALSE, cursor |-> 0, newest |-> 0, seen |-> {},
           repeated |-> {}, ends |-> {}, veiled |-> {}, astray |-> FALSE]

TypeOK ==
  /\ posts \in Seq(Post) /\ Len(posts) <= Capacity
  /\ requests \in 0..MaxRequests /\ made \in 0..requests
  /\ commented \subseteq Mark /\ liked \subseteq (1..MaxRequests) \X User
  /\ voted \subseteq User /\ admitted \subseteq User
  /\ forgotten \subseteq deleting /\ late \subseteq forgotten
  /\ deleting \subseteq User /\ blocked \subseteq User
  /\ walk.cursor \in 0..MaxRequests

Init == /\ posts = <<>> /\ made = 0 /\ requests = 0
        /\ commented = {} /\ liked = {} /\ voted = {}
        /\ admitted = {} /\ deleting = {} /\ forgotten = {} /\ late = {}
        /\ blocked = {} /\ walk = NoWalk

-----------------------------------------------------------------------------
(* app.authenticate: the session is one of a user that is there.           *)
Admits(u) ==
  /\ u \notin admitted \cup deleting
  /\ requests < MaxRequests /\ requests' = requests + 1
  /\ admitted' = admitted \cup {u}
  /\ UNCHANGED <<data, deleting, forgotten, late, blocked, walk>>

Handles(u) ==
  /\ u \in admitted /\ admitted' = admitted \ {u}
  /\ late' = late \cup ({u} \cap forgotten)
  /\ UNCHANGED <<requests, deleting, forgotten, blocked, walk>>

Kept(list) == SubSeq(list, 1, Min({Capacity, Len(list)}))

(* createCoinCommunityPost                                                 *)
Posts(u) ==
  /\ Handles(u)
  /\ made' = made + 1
  /\ posts' = Kept(<<[id |-> made + 1, author |-> u]>> \o posts)
  /\ UNCHANGED <<commented, liked, voted>>

(* likeCommunityItem and unlikeCommunityItem, createCommunityComment: of a *)
(* post that is still kept.                                                *)
Likes(u, id) ==
  /\ Handles(u) /\ id \in IdsOf(posts)
  /\ liked' = IF <<id, u>> \in liked THEN liked \ {<<id, u>>} ELSE liked \cup {<<id, u>>}
  /\ UNCHANGED <<posts, made, commented, voted>>

Comments(u, id) ==
  /\ Handles(u) /\ id \in IdsOf(posts)
  /\ commented' = commented \cup {<<id, u>>}
  /\ UNCHANGED <<posts, made, liked, voted>>

(* voteCoinDirection, voteCoinSentiment and voteMarketSentiment.           *)
Votes(u) ==
  /\ Handles(u) /\ voted' = voted \cup {u}
  /\ UNCHANGED <<posts, made, commented, liked>>

-----------------------------------------------------------------------------
DeleteCommits(u) ==
  /\ u \notin deleting /\ deleting' = deleting \cup {u}
  /\ UNCHANGED <<data, requests, admitted, forgotten, late, blocked, walk>>

Without(author, u) == IF author = u THEN Nobody ELSE author

(* anonymizeCommunityDataForDeletedUser                                    *)
Forgets(u) ==
  /\ u \in deleting \ forgotten /\ forgotten' = forgotten \cup {u}
  /\ posts' = [i \in DOMAIN posts |-> [posts[i] EXCEPT !.author = Without(@, u)]]
  /\ commented' = {<<m[1], Without(m[2], u)>> : m \in commented}
  /\ liked' = {m \in liked : m[2] # u} /\ voted' = voted \ {u}
  /\ UNCHANGED <<made, requests, admitted, deleting, late, blocked, walk>>

-----------------------------------------------------------------------------
(* Blocks or unblocks: a walk may then miss what it did not see meanwhile. *)
Blocks(u) ==
  /\ blocked' = IF u \in blocked THEN blocked \ {u} ELSE blocked \cup {u}
  /\ walk' = [walk EXCEPT !.veiled =
                IF walk.begun THEN @ \cup {p.id : p \in {q \in ToSet(posts) : q.author = u}}
                ELSE @]
  /\ UNCHANGED <<data, requests, admitted, deleting, forgotten, late>>

(* What the reader may see; and what comes before it in the order asked    *)
(* for, which is that of the ids.                                          *)
Shown == {p.id : p \in {q \in ToSet(posts) : q.author \notin blocked}}

Before(w, id) == {d \in Shown : IF w.oldest THEN d < id ELSE d > id}
Place(w, id) == Cardinality(Before(w, id))

(* How many posts come before the page: none if the cursor is not found.   *)
Offset(w) == IF w.cursor \in Shown THEN Place(w, w.cursor) + 1 ELSE 0

(* listCoinCommunity: the cursor of the answer is the post after the page, *)
(* and the next page begins after the cursor.                              *)
Page(w) ==
  LET rest  == {id \in Shown : Place(w, id) >= Offset(w)}
      page  == {id \in rest : Place(w, id) < Offset(w) + Limit}
      after == rest \ page
      next  == {id \in after : Before(w, id) \cap after = {}}
  IN  [w EXCEPT !.cursor = IF next = {} THEN 0 ELSE CHOOSE id \in next : TRUE,
                !.seen = @ \cup page, !.ends = @ \cup next,
                !.repeated = @ \cup (w.seen \cap page),
                !.astray = @ \/ (w.cursor # 0 /\ Offset(w) = 0)]

Begins(oldest) ==
  /\ ~walk.begun
  /\ walk' = Page([NoWalk EXCEPT !.oldest = oldest, !.begun = TRUE, !.newest = made,
                     !.veiled = {p.id : p \in {q \in ToSet(posts) : q.author \in blocked}}])
  /\ UNCHANGED <<data, requests, admitted, deleting, forgotten, late, blocked>>

Turns ==
  /\ walk.begun /\ walk.cursor # 0 /\ ~walk.astray
  /\ walk' = Page(walk)
  /\ UNCHANGED <<data, requests, admitted, deleting, forgotten, late, blocked>>

Next ==
  \/ \E u \in User :
       \/ Admits(u) \/ Posts(u) \/ Votes(u) \/ DeleteCommits(u) \/ Forgets(u) \/ Blocks(u)
       \/ \E id \in 1..MaxRequests : Likes(u, id) \/ Comments(u, id)
  \/ Turns
  \/ \E oldest \in BOOLEAN : Begins(oldest)

Spec == Init /\ [][Next]_vars

-----------------------------------------------------------------------------
(* Nothing kept names a user whose deletion is done, also under posts that *)
(* are no longer kept, but for requests that were authenticated before and *)
(* handled after it (anonymizeCommunityDataForDeletedUser).                *)
GoneAreNotNamed ==
  \A u \in forgotten \ late :
    /\ \A p \in ToSet(posts) : p.author # u
    /\ \A m \in commented \cup liked : m[2] # u
    /\ u \notin voted

(* While its cursor is found a walk shows no post twice, whatever posts    *)
(* come, go and are hidden meanwhile; at its end it has shown every post   *)
(* that was there and not hidden all along, but for the post after each of *)
(* its pages, which the cursor stands for (listCoinCommunity).             *)
WalkAddsUp ==
  ~walk.astray =>
    /\ walk.repeated = {}
    /\ walk.begun /\ walk.cursor = 0 =>
         \A p \in ToSet(posts) :
           p.id <= walk.newest => p.id \in walk.seen \cup walk.ends \cup walk.veiled
=============================================================================
