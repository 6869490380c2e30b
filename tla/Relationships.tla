---------------------------- MODULE Relationships ----------------------------
(***************************************************************************)
(* Who follows and who blocks whom                                         *)
(* (src/domains/users/user-relationship.service.ts): sets in memory, which *)
(* are changed at once and from which lists are filtered, in front of two  *)
(* tables, which a call reads and writes later and may fail to.  Reading   *)
(* adds to memory what a table holds, and never takes anything from it.    *)
(*                                                                         *)
(* The queries of one read run side by side: each finds a row or not as it *)
(* was at some time between the beginning and the end of the read.         *)
(***************************************************************************)
EXTENDS Naturals

CONSTANTS
  User, Call,
  OpOf,           \* what each of the calls may ask for
  MaxRestarts     \* bound of the model

RelationAssumption ==
  OpOf \in [Call -> SUBSET {"list", "view", "block", "unblock", "follow", "unfollow",
                            "delete"}]

Link == {l \in {"follow", "block"} \X User \X User : l[2] # l[3]}

VARIABLES
  memory,     \* followsByUserId and blocksByUserId
  rows,       \* the tables user_follows and user_blocks
  gone,       \* users whose accounts are deleted
  calls,      \* the requests
  standing,   \* blocks that were answered and stored (history)
  lost,       \* those that a restart made memory forget (history)
  clean,      \* deleted users nobody has named since (history)
  restarts    \* how often the process started again

vars == <<memory, rows, gone, calls, standing, lost, clean, restarts>>

Idle == [op |-> "none", stage |-> "idle"]

TypeOK ==
  /\ memory \subseteq Link /\ rows \subseteq Link /\ gone \subseteq User
  /\ standing \subseteq rows /\ lost \subseteq standing /\ clean \subseteq gone
  /\ \A c \in Call :
       calls[c] = Idle \/
       calls[c] \in [op : OpOf[c], by : User, of : User,
                     stage : {"reading", "writing", "answering", "forgetting"},
                     ever : SUBSET Link, always : SUBSET Link,
                     barred : SUBSET Link, blind : BOOLEAN]

Init == /\ memory = {} /\ rows = {} /\ gone = {}
        /\ calls = [c \in Call |-> Idle]
        /\ standing = {} /\ lost = {} /\ clean = {} /\ restarts = 0

-----------------------------------------------------------------------------
Block(a, b)   == <<"block", a, b>>
Follow(a, b)  == <<"follow", a, b>>
Follows(a, b) == {Follow(a, b), Follow(b, a)}
About(u)      == {l \in Link : u \in {l[2], l[3]}}

(* Variant: who has blocked the viewer is not asked.                       *)
QueriesOwn(k) == {Follow(k.by, k.of), Follow(k.of, k.by), Block(k.by, k.of)}

(* readRelationshipsFromDb, and the query of listBlockedUsers.             *)
Queries(k) ==
  IF k.op = "list" THEN {l \in Link : l[1] = "block" /\ l[2] = k.by}
  ELSE Follows(k.by, k.of) \cup {Block(k.by, k.of), Block(k.of, k.by)}

(* getRelationshipSync: blocked or blockedBy.                              *)
Barred(a, b, m) == {Block(a, b), Block(b, a)} \cap m # {}

Busy(c)       == calls[c] # Idle
Names(c, u)   == Busy(c) /\ (calls[c].op = "list" \/ u \in {calls[c].by, calls[c].of})
Is(c, stage)  == calls[c].stage = stage

Watched(k) == IF k.stage \in {"reading", "answering"} THEN Queries(k) ELSE {}

(* The tables become new, and every read under way may have seen it.       *)
Stores(new, cs) ==
  /\ rows' = new
  /\ calls' = [c \in Call |->
       IF cs[c] = Idle THEN Idle
       ELSE [cs[c] EXCEPT !.ever = @ \cup (new \cap Watched(cs[c])), !.always = @ \cap new]]

Enters(k, stage) ==
  LET entered == [k EXCEPT !.stage = stage]
  IN  [entered EXCEPT !.ever = rows \cap Watched(entered), !.always = rows \cap Watched(entered)]

-----------------------------------------------------------------------------
(* blockUser and unblockUser change memory first, the others read first.   *)
Begins(c, op, a, b) ==
  LET k == [op |-> op, by |-> a, of |-> b, ever |-> {}, always |-> {},
            barred |-> IF op = "follow" THEN standing \cap {Block(a, b), Block(b, a)}
                       ELSE {},
            stage |-> "begun", blind |-> FALSE]
  IN  /\ ~Busy(c) /\ a # b /\ a \notin gone
      /\ calls' = [calls EXCEPT ![c] = Enters(k,
                    IF op \in {"block", "unblock", "delete"} THEN "writing" ELSE "reading")]
      /\ memory' = CASE op = "block"   -> (memory \ Follows(a, b)) \cup {Block(a, b)}
                     [] op = "unblock" -> memory \ {Block(a, b)}
                     [] OTHER          -> memory
      /\ standing' = CASE op = "unblock" -> standing \ {Block(a, b)}
                       [] op = "delete"  -> standing \ About(a)
                       [] OTHER          -> standing
      /\ lost' = lost \cap standing'
      /\ clean' = IF op \in {"block", "follow"} THEN clean \ {a, b} ELSE clean
      /\ UNCHANGED <<rows, gone, restarts>>

(* What follows a read.  setFollowState refuses to follow across a block   *)
(* that it knows of, otherwise it changes memory, then the table.          *)
Continues(c, found, blind) ==
  LET k == calls[c]
      m == memory \cup found
      f == Follow(k.by, k.of)
      writes == calls' = [calls EXCEPT ![c] = Enters([k EXCEPT !.barred = {}, !.blind = blind], "writing")]
  IN  IF k.stage = "reading" /\ k.op = "follow" /\ ~Barred(k.by, k.of, m)
      THEN memory' = m \cup {f} /\ writes
      ELSE IF k.stage = "reading" /\ k.op = "unfollow"
      THEN memory' = m \ {f} /\ writes
      ELSE memory' = m /\ calls' = [calls EXCEPT ![c] = Idle]

ReadEnds(c) ==
  /\ Is(c, "reading") \/ Is(c, "answering")
  /\ \E found \in SUBSET (Queries(calls[c]) \cap calls[c].ever) :
       /\ Queries(calls[c]) \cap calls[c].always \subseteq found
       /\ Continues(c, found, FALSE)
  /\ UNCHANGED <<rows, gone, standing, lost, clean, restarts>>

(* The database does not answer: memory has to do.                         *)
ReadFails(c) ==
  /\ Is(c, "reading") \/ Is(c, "answering")
  /\ Continues(c, {}, TRUE)
  /\ UNCHANGED <<rows, gone, standing, lost, clean, restarts>>

(* The tables after the write of a call.                                   *)
Written(k) ==
  CASE k.op = "block"    -> (rows \ Follows(k.by, k.of)) \cup {Block(k.by, k.of)}
    [] k.op = "unblock"  -> rows \ {Block(k.by, k.of)}
    [] k.op = "follow"   -> rows \cup {Follow(k.by, k.of)}
    [] k.op = "unfollow" -> rows \ {Follow(k.by, k.of)}

(* After a change of who follows whom the state is read for the answer.    *)
AfterWrite(c) ==
  IF calls[c].op \in {"follow", "unfollow"}
  THEN [calls EXCEPT ![c] = Enters(@, "answering")] ELSE [calls EXCEPT ![c] = Idle]

(* A block stands once it is stored, if nobody is about to take it away.   *)
WriteEnds(c) ==
  LET k == calls[c]
      opposed == \E d \in Call \ {c} :
        /\ Busy(d)
        /\ \/ calls[d].op = "unblock" /\ calls[d].by = k.by /\ calls[d].of = k.of
           \/ calls[d].op = "delete" /\ calls[d].by \in {k.by, k.of}
  IN  /\ Is(c, "writing") /\ k.op # "delete"
      /\ Stores(Written(k), AfterWrite(c))
      /\ IF k.op = "block" /\ ~opposed /\ Block(k.by, k.of) \in memory
         THEN /\ standing' = standing \cup {Block(k.by, k.of)}
              /\ lost' = lost \ {Block(k.by, k.of)}
         ELSE UNCHANGED <<standing, lost>>
      /\ UNCHANGED <<memory, gone, clean, restarts>>

WriteFails(c) ==
  /\ Is(c, "writing")
  /\ calls' = IF calls[c].op = "delete" THEN [calls EXCEPT ![c] = Idle]
              ELSE AfterWrite(c)
  /\ UNCHANGED <<memory, rows, gone, standing, lost, clean, restarts>>

-----------------------------------------------------------------------------
(* deleteUserAccount: its transaction, then removeUserRelationshipState.   *)
DeleteCommits(c) ==
  LET u == calls[c].by
  IN  /\ Is(c, "writing") /\ calls[c].op = "delete" /\ u \notin gone
      /\ gone' = gone \cup {u}
      /\ Stores(rows \ About(u), [calls EXCEPT ![c].stage = "forgetting"])
      /\ clean' = IF \E d \in Call \ {c} : Names(d, u) THEN clean ELSE clean \cup {u}
      /\ standing' = standing \ About(u) /\ lost' = lost \ About(u)
      /\ UNCHANGED <<memory, restarts>>

Forgets(c) ==
  /\ Is(c, "forgetting")
  /\ memory' = memory \ About(calls[c].by)
  /\ calls' = [calls EXCEPT ![c] = Idle]
  /\ UNCHANGED <<rows, gone, standing, lost, clean, restarts>>

(* The process starts again with nothing in memory.                        *)
Restarts ==
  /\ restarts < MaxRestarts /\ restarts' = restarts + 1
  /\ memory' = {} /\ calls' = [c \in Call |-> Idle]
  /\ lost' = standing
  /\ UNCHANGED <<rows, gone, standing, clean>>

Next ==
  \/ Restarts
  \/ \E c \in Call :
       \/ ReadEnds(c) \/ ReadFails(c) \/ WriteEnds(c) \/ WriteFails(c)
       \/ DeleteCommits(c) \/ Forgets(c)
       \/ \E op \in OpOf[c], a, b \in User : Begins(c, op, a, b)

Spec == Init /\ [][Next]_vars

-----------------------------------------------------------------------------
(* Nobody comes to follow across a block that stood when the call began    *)
(* and stands still, in whichever direction it was made and whether or not *)
(* the process has started again since; only a call that could not read    *)
(* the tables may miss a block that memory lost (setFollowState).          *)
BlockForbidsFollow ==
  \A c \in Call :
    Is(c, "reading") /\ calls[c].op = "follow" /\ calls'[c].stage = "writing"
      => \A l \in calls[c].barred \cap standing : calls'[c].blind /\ l \in lost

(* Of a user who is gone, whom no call named on the way, nothing is left   *)
(* in memory or in the tables (removeUserRelationshipState).               *)
GoneLeaveNoTrace ==
  \A u \in clean :
    (\A c \in Call : ~Is(c, "forgetting") \/ calls[c].by # u)
      => About(u) \cap (memory \cup rows) = {}
=============================================================================
