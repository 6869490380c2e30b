---------------------------- MODULE AccountsProofs ----------------------------
(***************************************************************************)
(* Proofs about Accounts, for any devices, accounts and numbers of users:  *)
(* who signs in again gets the same account, and an identity stays with    *)
(* its user.  IInv is the inductive invariant; its heart is Lasts: what a  *)
(* sign-in returned is what the identity's row says, if there is such a    *)
(* user still.  The rest is about what else names users: Relationships,    *)
(* whose invariant is RelInv, and Community, with NamedInv for the names   *)
(* and WalkInv for a walk through its pages.                               *)
(***************************************************************************)
EXTENDS Accounts, Sequences, FiniteSetTheorems, WellFoundedInduction, TLAPS

Social(c) == c.provider # "email"

(* No two users have one e-mail, and an id is not used again.              *)
Users ==
  /\ users = [u \in UserId |-> users[u]]
  /\ \A u \in Live : users[u].email \in Email \ {NoEmail}
  /\ \A u, v \in Live : u # v => users[u].email # users[v].email
  /\ spent \subseteq UserId /\ spent \cap Live = {}

(* An identity has a user that exists, or is free.                         *)
Identities ==
  /\ identities \in [Identity -> [user : UserId \cup {Nobody}, email : Email]]
  /\ \A i \in Identity : identities[i].user \in Live \cup {Nobody}

(* Only a social login goes through the stages of one.                     *)
Calls ==
  /\ calls = [c \in Client |-> calls[c]]
  /\ \A c \in Client :
       /\ calls[c].stage \in Stage /\ calls[c].email \in Email
       /\ calls[c].user \in UserId \cup {Nobody}
       /\ calls[c].stage = "register" => ~Social(c)
       /\ calls[c].stage \notin {"idle", "register"} => Social(c)
       /\ calls[c].stage = "create" => calls[c].email # NoEmail

Lasts ==
  /\ last \in [Client -> UserId \cup {Nobody}]
  /\ \A c \in Client :
       /\ last[c] \in Live \cup spent \cup {Nobody}
       /\ Social(c) /\ last[c] \in Live => identities[Id(c)].user = last[c]

IInv == Users /\ Identities /\ Calls /\ Lasts

(* The step that IdentityStays forbids is none.                            *)
Stays ==
  \A i \in Identity :
    identities[i].user \in Live /\ users'[identities[i].user] # NoRow
      => identities'[i].user = identities[i].user

-----------------------------------------------------------------------------
LEMMA Sound == IInv => TypeOK /\ SameAccount
<1> SUFFICES ASSUME IInv PROVE TypeOK /\ SameAccount
  OBVIOUS
<1>1. TypeOK
  <2>1. /\ \A u \in Live : users[u].email \in Email \ {NoEmail}
        /\ spent \subseteq UserId /\ spent \cap Live = {}
        /\ \A u, v \in Live : u # v => users[u].email # users[v].email
    BY DEF IInv, Users
  <2>2. \A i \in Identity : identities[i].user \in Live \cup {Nobody}
    BY DEF IInv, Identities
  <2>3. /\ \A c \in Client : /\ calls[c].stage \in Stage
                             /\ calls[c].user \in UserId \cup {Nobody}
                             /\ calls[c].email \in Email
        /\ last \in [Client -> UserId \cup {Nobody}]
    BY DEF IInv, Calls, Lasts
  <2> QED
    BY <2>1, <2>2, <2>3 DEF TypeOK
<1>2. ASSUME NEW c \in Client, NEW d \in Client, Id(c) = Id(d),
             c.provider # "email", {last[c], last[d]} \subseteq Live
      PROVE  last[c] = last[d]
  <2>1. c.provider = d.provider
    BY <1>2 DEF Id
  <2>2. last[c] = identities[Id(c)].user /\ last[d] = identities[Id(d)].user
    BY <1>2, <2>1 DEF IInv, Lasts, Social
  <2> QED
    BY <1>2, <2>2
<1> QED
  BY <1>1, <1>2 DEF SameAccount

LEMMA Constants ==
  /\ Nobody \notin UserId /\ NoEmail \in Email
  /\ Stage = {"idle", "touch", "legacy", "claim", "email", "link", "create",
              "conflict", "register"}
BY LegacyAssumption DEF Email, UserId, Stage

LEMMA HasMail ==
  ASSUME NEW c \in Client
  PROVE  /\ c.email \in Email /\ c.provider \in {"email", "google", "apple"}
         /\ c.provider # "apple" => c.email # NoEmail
BY ClientAssumption DEF Email

LEMMA HasPlaceholder ==
  ASSUME NEW c \in Client
  PROVE  Placeholder(c.account) \in Email \ {NoEmail}
<1>1. Placeholder(c.account) # NoEmail
  BY DEF Placeholder, NoEmail
<1> QED
  BY <1>1 DEF Email

LEMMA HasIdentity ==
  ASSUME NEW c \in Client, Social(c) PROVE Id(c) \in Identity
BY DEF Social, Id, Identity

LEMMA InitIInv == Init => IInv
<1> SUFFICES ASSUME Init PROVE IInv
  OBVIOUS
<1>1. \A u \in UserId : /\ u \in Live <=> u \in DOMAIN Legacy
                       /\ u \in Live => users[u] = Legacy[u]
  <2>1. NoRow.provider = "none"
    BY DEF NoRow, Row
  <2> QED
    BY <2>1, LegacyAssumption DEF Init, Live
<1>2. Users
  BY <1>1, LegacyAssumption DEF Users, Init, Live, Email
<1>3. Identities
  BY Constants DEF Identities, Init, Unlinked
<1>4. Calls
  BY Constants DEF Calls, Init, Idle
<1>5. Lasts
  BY Constants DEF Lasts, Init, Live
<1> QED
  BY <1>2, <1>3, <1>4, <1>5 DEF IInv

-----------------------------------------------------------------------------
(* Of the ids that are free there is a first one: of the sets of what is   *)
(* smaller than one of them, take a smallest.                              *)
LEMMA NextIdIsFresh == ASSUME Fresh # {} PROVE NextId \in Fresh
<1> DEFINE Below(t) == {v \in Fresh : v < t}
           Belows   == {Below(t) : t \in Fresh}
           R        == StrictSubsetOrdering(Fresh)
<1>1. /\ \A t \in Fresh : t \in Int /\ Fresh \subseteq 1 .. MaxUsers
      /\ IsFiniteSet(Fresh)
  <2>1. Fresh \subseteq 1 .. MaxUsers /\ 1 \in Int /\ MaxUsers \in Int
    BY LegacyAssumption DEF Fresh, UserId
  <2>2. IsFiniteSet(Fresh)
    BY <2>1, FS_Interval, FS_Subset
  <2> QED
    BY <2>1, <2>2
<1>2. Belows \subseteq FiniteSubsetsOf(Fresh) /\ Belows # {}
  <2>1. \A t \in Fresh : Below(t) \subseteq Fresh /\ IsFiniteSet(Below(t))
    BY <1>1, FS_Subset
  <2> QED
    BY <2>1 DEF FiniteSubsetsOf
<1>3. IsWellFoundedOn(R, FiniteSubsetsOf(Fresh))
  BY FS_StrictSubsetOrderingWellFounded
<1>4. PICK least \in Belows : \A V \in Belows : <<V, least>> \notin R
  <2> HIDE DEF Belows, R
  <2> QED
    BY <1>2, <1>3, WFMin
<1>5. PICK t \in Fresh : least = Below(t)
  BY <1>4
<1>6. ASSUME NEW v \in Fresh, v < t
      PROVE  FALSE
  <2>1. /\ \A w \in Fresh : w < v => w < t
        /\ ~(v < v)
    BY <1>1, <1>6
  <2>2. Below(v) \subseteq Below(t) /\ v \in Below(t) /\ v \notin Below(v)
    BY <1>6, <2>1
  <2>3. <<Below(v), Below(t)>> \in R
    BY <2>2 DEF StrictSubsetOrdering
  <2> QED
    BY <1>4, <1>5, <2>3
<1>7. \A v \in Fresh : t <= v
  BY <1>1, <1>6
<1> QED
  BY <1>7 DEF NextId

(* A row is inserted, if its e-mail is free.                               *)
LEMMA Inserted ==
  ASSUME IInv, Fresh # {}, NEW p, NEW a, NEW e \in Email \ {NoEmail},
         p # "none", Owners(e) = {},
         users' = [users EXCEPT ![NextId] = Row(p, a, e)], spent' = spent
  PROVE  /\ NextId \in UserId \ (Live \cup spent)
         /\ Live' = Live \cup {NextId} /\ Users'
<1>1. NextId \in UserId \ (Live \cup spent)
  BY NextIdIsFresh DEF Fresh
<1> DEFINE row == Row(p, a, e)
<1>2. row # NoRow /\ row.email = e
  BY DEF Row, NoRow
<1> HIDE DEF row
<1>3. users' = [u \in UserId |-> IF u = NextId THEN row ELSE users[u]]
  BY DEF IInv, Users, row
<1>4. Live' = Live \cup {NextId}
  BY <1>1, <1>2, <1>3 DEF Live
<1>5. \A u \in Live : users[u].email # e
  BY DEF Owners
<1>6. Users'
  BY <1>1, <1>2, <1>3, <1>4, <1>5 DEF IInv, Users, Live
<1> QED
  BY <1>1, <1>4, <1>6

(* The parts that a step leaves alone.                                     *)
LEMMA Unwritten ==
  ASSUME IInv, UNCHANGED <<users, spent>>
  PROVE  /\ Live' = Live /\ Users'
         /\ UNCHANGED identities => Identities'
         /\ UNCHANGED <<identities, last>> => Lasts'
BY DEF IInv, Users, Identities, Lasts, Live

(* A request goes on, or ends.                                             *)
LEMMA GoesOn ==
  ASSUME IInv, NEW c \in Client, NEW stage \in Stage,
         NEW user \in UserId \cup {Nobody}, NEW email \in Email,
         Goes(c, stage, user, email),
         stage = "register" => ~Social(c),
         stage \notin {"idle", "register"} => Social(c),
         stage = "create" => email # NoEmail
  PROVE  Calls'
<1> DEFINE next == [stage |-> stage, user |-> user, email |-> email]
<1>1. next.stage = stage /\ next.user = user /\ next.email = email
  OBVIOUS
<1>2. calls' = [d \in Client |-> IF d = c THEN next ELSE calls[d]]
  BY DEF IInv, Calls, Goes
<1> HIDE DEF next
<1> QED
  BY <1>1, <1>2 DEF IInv, Calls

LEMMA Ends ==
  ASSUME IInv, NEW c \in Client, calls' = [calls EXCEPT ![c] = Idle]
  PROVE  Calls'
<1>1. Goes(c, "idle", Nobody, NoEmail)
  BY DEF Goes, Idle
<1> QED
  BY <1>1, GoesOn, Constants

(* Who is returned the user of its identity's row.                         *)
LEMMA ReturnsOwn ==
  ASSUME IInv, NEW c \in Client, NEW u, Returns(c, u), Social(c),
         identities[Id(c)].user = u, UNCHANGED <<users, spent>>,
         \A i \in Identity : identities'[i].user = identities[i].user
  PROVE  Lasts' /\ Calls'
<1>1. u \in Live \cup {Nobody} /\ u \in UserId \cup {Nobody}
  BY HasIdentity DEF IInv, Identities
<1>2. last' = [d \in Client |-> IF d = c THEN u ELSE last[d]]
  BY DEF IInv, Lasts, Returns
<1>3. \A d \in Client : Social(d) => Id(d) \in Identity
  BY HasIdentity
<1>4. Lasts'
  BY <1>1, <1>2, <1>3, Unwritten DEF IInv, Lasts
<1> QED
  BY <1>4, Ends DEF Returns

(* A free identity is written for a user that is new, or that exists and   *)
(* has been returned to nobody else with this identity.                    *)
LEMMA Linked ==
  ASSUME IInv, NEW c \in Client, NEW u \in UserId, Social(c),
         identities[Id(c)] = Unlinked, Writes(c, u), spent' = spent,
         Live' = Live \cup {u}, u \notin spent, u \in Live \/ u \notin Live \cup spent
  PROVE  Identities' /\ Lasts' /\ Calls' /\ Stays
<1> DEFINE new == [user |-> u, email |-> c.email]
<1>1. /\ new \in [user : UserId \cup {Nobody}, email : Email] /\ new.user = u
      /\ Id(c) \in Identity
  <2>1. c.email \in Email
    BY HasMail
  <2>2. Id(c) \in Identity
    BY HasIdentity
  <2> QED
    BY <2>1, <2>2
<1>2. identities' = [i \in Identity |-> IF i = Id(c) THEN new ELSE identities[i]]
  BY DEF IInv, Identities, Writes
<1>3. last' = [d \in Client |-> IF d = c THEN u ELSE last[d]]
  BY DEF IInv, Lasts, Writes, Returns
<1> HIDE DEF new
<1>4. Identities'
  BY <1>1, <1>2 DEF IInv, Identities
<1>5. identities[Id(c)].user = Nobody
  BY DEF Unlinked
<1>6. Lasts'
  <2> SUFFICES ASSUME NEW d \in Client
               PROVE  /\ last'[d] \in Live' \cup spent \cup {Nobody}
                      /\ last'[d] \in UserId \cup {Nobody}
                      /\ Social(d) /\ last'[d] \in Live'
                           => identities'[Id(d)].user = last'[d]
    BY <1>3 DEF Lasts
  <2>1. Social(d) => Id(d) \in Identity
    BY HasIdentity
  <2>2. CASE d = c
    BY <1>1, <1>2, <1>3, <2>2
  <2>3. CASE d # c
    <3>1. last'[d] = last[d] /\ last[d] \in UserId \cup {Nobody}
          /\ last[d] \in Live \cup spent \cup {Nobody}
      BY <1>3, <2>3 DEF IInv, Lasts
    <3>2. CASE Social(d) /\ last[d] \in Live'
      <4>1. last[d] \in Live
        BY <3>1, <3>2, Constants
      <4>2. identities[Id(d)].user = last[d] /\ last[d] # Nobody
        BY <3>2, <4>1, Constants DEF IInv, Lasts, Live
      <4>3. Id(d) # Id(c)
        BY <1>5, <4>2
      <4> QED
        BY <1>2, <2>1, <3>1, <3>2, <4>2, <4>3
    <3> QED
      BY <3>1, <3>2
  <2> QED
    BY <2>2, <2>3
<1>7. Stays
  BY <1>1, <1>2, <1>5, Constants DEF Stays, Live
<1> QED
  BY <1>4, <1>6, <1>7, Ends DEF Writes, Returns

-----------------------------------------------------------------------------
(* registerUser.                                                           *)
LEMMA RegisterStep ==
  ASSUME IInv, NEW c \in Client, RegisterBegins(c) \/ RegisterEnds(c)
  PROVE  IInv' /\ Stays
<1>1. CASE RegisterBegins(c)
  <2>1. Calls'
    <3>1. "register" \in Stage /\ ~Social(c) /\ "register" # "create"
      BY <1>1, Constants DEF RegisterBegins, Social
    <3>2. Goes(c, "register", Nobody, NoEmail)
      BY <1>1 DEF RegisterBegins
    <3> QED
      BY <3>1, <3>2, GoesOn, Constants
  <2> QED
    BY <1>1, <2>1, Unwritten DEF RegisterBegins, IInv, Stays
<1>2. CASE RegisterEnds(c) /\ Owners(c.email) # {}
  <2>1. UNCHANGED <<users, spent, identities, last>> /\ Calls'
    BY <1>2, Ends DEF RegisterEnds, Throws
  <2> QED
    BY <2>1, Unwritten DEF IInv, Stays
<1>3. CASE RegisterEnds(c) /\ Owners(c.email) = {}
  <2>1. /\ ~Social(c) /\ Fresh # {} /\ UNCHANGED <<spent, identities>>
        /\ users' = [users EXCEPT ![NextId] = Row("email", c.email, c.email)]
        /\ Returns(c, NextId)
    BY <1>3 DEF RegisterEnds, IInv, Calls
  <2>2. c.email \in Email \ {NoEmail}
    BY <2>1, HasMail DEF Social
  <2>3. /\ NextId \in UserId \ (Live \cup spent)
        /\ Live' = Live \cup {NextId} /\ Users'
    BY <1>3, <2>1, <2>2, Inserted
  <2>4. Identities'
    BY <2>1, <2>3 DEF IInv, Identities
  <2>5. last' = [d \in Client |-> IF d = c THEN NextId ELSE last[d]]
    BY <2>1 DEF IInv, Lasts, Returns
  <2>6. Lasts'
    BY <2>1, <2>3, <2>5, Constants DEF IInv, Lasts
  <2>7. Calls'
    BY <2>1, Ends DEF Returns
  <2> QED
    BY <2>1, <2>3, <2>4, <2>6, <2>7 DEF IInv, Stays
<1> QED
  BY <1>1, <1>2, <1>3

(* The identity is looked for, and its e-mail kept.                        *)
LEMMA SocialStep ==
  ASSUME IInv, NEW c \in Client, SocialBegins(c) \/ Touches(c)
  PROVE  IInv' /\ Stays
<1>1. CASE SocialBegins(c)
  <2>1. Social(c) /\ Id(c) \in Identity /\ UNCHANGED <<users, spent, identities>>
    BY <1>1, HasIdentity DEF SocialBegins, Social
  <2>2. identities[Id(c)].user \in UserId \cup {Nobody}
    BY <2>1 DEF IInv, Identities
  <2>3. CASE Returns(c, identities[Id(c)].user)
    BY <2>1, <2>3, ReturnsOwn, Unwritten DEF IInv, Stays
  <2>4. CASE UNCHANGED last /\ ~Returns(c, identities[Id(c)].user)
    <3>1. PICK stage \in {"legacy", "touch"}, user \in UserId \cup {Nobody} :
            Goes(c, stage, user, NoEmail)
      BY <1>1, <2>2, <2>4 DEF SocialBegins
    <3>2. stage \in Stage /\ stage # "register" /\ stage # "create"
      BY Constants
    <3>3. Calls'
      BY <2>1, <3>1, <3>2, GoesOn, Constants
    <3> QED
      BY <2>1, <2>4, <3>3, Unwritten DEF IInv, Stays
  <2> QED
    BY <1>1, <2>3, <2>4 DEF SocialBegins
<1>2. CASE Touches(c) /\ identities[Id(c)].user = calls[c].user
  <2>1. /\ Social(c) /\ UNCHANGED <<users, spent>> /\ Returns(c, calls[c].user)
        /\ identities' = [identities EXCEPT ![Id(c)].email = c.email]
    BY <1>2 DEF Touches, IInv, Calls
  <2>2. Id(c) \in Identity /\ c.email \in Email
    BY <2>1, HasIdentity, HasMail
  <2>3. /\ identities' \in [Identity -> [user : UserId \cup {Nobody}, email : Email]]
        /\ \A i \in Identity : identities'[i].user = identities[i].user
    BY <2>1, <2>2 DEF IInv, Identities
  <2>4. Identities' /\ Users'
    BY <2>1, <2>3, Unwritten DEF IInv, Identities
  <2>5. Lasts' /\ Calls'
    BY <1>2, <2>1, <2>3, ReturnsOwn
  <2> QED
    BY <2>3, <2>4, <2>5 DEF IInv, Stays
<1>3. CASE Touches(c) /\ identities[Id(c)].user # calls[c].user
  <2>1. UNCHANGED <<users, spent, identities, last>> /\ Calls'
    BY <1>3, Ends DEF Touches, Throws
  <2> QED
    BY <2>1, Unwritten DEF IInv, Stays
<1> QED
  BY <1>1, <1>2, <1>3

(* A step that only moves the request on.                                  *)
LEMMA MovesStep ==
  ASSUME IInv, NEW c \in Client, NEW stage \in Stage \ {"idle", "register"},
         NEW user \in UserId \cup {Nobody}, NEW email \in Email,
         calls[c].stage \notin {"idle", "register"}, Goes(c, stage, user, email),
         stage = "create" => email # NoEmail,
         UNCHANGED <<users, spent, identities, last>>
  PROVE  IInv' /\ Stays
<1>1. Social(c)
  BY DEF IInv, Calls
<1>2. Calls'
  BY <1>1, GoesOn
<1> QED
  BY <1>2, Unwritten DEF IInv, Stays

LEMMA ThrowsStep ==
  ASSUME IInv, NEW c \in Client, Throws(c), UNCHANGED <<users, spent, identities>>
  PROVE  IInv' /\ Stays
<1>1. Calls' /\ UNCHANGED last
  BY Ends DEF Throws
<1> QED
  BY <1>1, Unwritten DEF IInv, Stays

(* The lookups of a row from before AuthIdentity and of the e-mail's.      *)
LEMMA FindsStep ==
  ASSUME IInv, NEW c \in Client, FindsLegacy(c) \/ FindsEmail(c)
  PROVE  IInv' /\ Stays
<1>1. calls[c].stage \notin {"idle", "register"}
      /\ UNCHANGED <<users, spent, identities, last>>
  BY DEF FindsLegacy, FindsEmail
<1>2. CASE \E u \in Live : Goes(c, "claim", u, NoEmail) \/ Goes(c, "link", u, NoEmail)
  <2>1. PICK u \in Live, stage \in {"claim", "link"} : Goes(c, stage, u, NoEmail)
    BY <1>2
  <2>2. stage \in Stage \ {"idle", "register"} /\ stage # "create" /\ u \in UserId
    BY Constants DEF Live
  <2> QED
    BY <1>1, <2>1, <2>2, MovesStep, Constants
<1>3. CASE Goes(c, "email", Nobody, NoEmail)
  <2>1. "email" \in Stage \ {"idle", "register"} /\ "email" # "create"
    BY Constants
  <2> QED
    BY <1>1, <1>3, <2>1, MovesStep, Constants
<1>4. CASE Goes(c, "create", Nobody, MailOfNew(c))
  <2>1. "create" \in Stage \ {"idle", "register"}
    BY Constants
  <2>2. MailOfNew(c) \in Email /\ MailOfNew(c) # NoEmail
    BY HasMail, HasPlaceholder DEF MailOfNew
  <2> QED
    BY <1>1, <1>4, <2>1, <2>2, MovesStep, Constants
<1> QED
  BY <1>2, <1>3, <1>4 DEF FindsLegacy, FindsEmail, Made, Owners

(* A row from before AuthIdentity, or the e-mail's, is given the identity. *)
LEMMA LinksStep ==
  ASSUME IInv, NEW c \in Client, Claims(c) \/ Links(c)
  PROVE  IInv' /\ Stays
<1> DEFINE u == calls[c].user
<1>1. /\ calls[c].stage \notin {"idle", "register"} /\ Social(c)
      /\ UNCHANGED <<users, spent>>
  BY DEF Claims, Links, IInv, Calls
<1>2. CASE MayWrite(c, u) /\ Writes(c, u)
  <2>1. u \in Live /\ u \in UserId /\ u \notin spent /\ identities[Id(c)] = Unlinked
    BY <1>2 DEF MayWrite, Live, IInv, Users
  <2>2. Live' = Live \cup {u} /\ Users'
    BY <1>1, <2>1, Unwritten
  <2>3. Identities' /\ Lasts' /\ Calls' /\ Stays
    <3> HIDE DEF u
    <3> QED
      BY <1>1, <1>2, <2>1, <2>2, Linked
  <2> QED
    BY <2>2, <2>3 DEF IInv
<1>3. CASE Throws(c) /\ UNCHANGED identities
  BY <1>1, <1>3, ThrowsStep
<1>4. CASE Goes(c, "conflict", Nobody, NoEmail) /\ UNCHANGED <<identities, last>>
  <2>1. "conflict" \in Stage \ {"idle", "register"} /\ "conflict" # "create"
    BY Constants
  <2> QED
    BY <1>1, <1>4, <2>1, MovesStep, Constants
<1> QED
  BY <1>2, <1>3, <1>4 DEF Claims, Links

(* A user is made with its identity, or the race for it was lost.          *)
LEMMA CreatesStep ==
  ASSUME IInv, NEW c \in Client, Creates(c)
  PROVE  IInv' /\ Stays
<1>1. /\ calls[c].stage = "create" /\ Social(c) /\ UNCHANGED spent
      /\ calls[c].email \in Email \ {NoEmail}
  BY DEF Creates, IInv, Calls
<1>2. CASE /\ Goes(c, "conflict", Nobody, NoEmail)
           /\ UNCHANGED <<users, identities, last>>
  <2>1. "conflict" \in Stage \ {"idle", "register"} /\ "conflict" # "create"
    BY Constants
  <2> QED
    BY <1>1, <1>2, <2>1, MovesStep, Constants
<1>3. CASE /\ Owners(calls[c].email) = {} /\ identities[Id(c)] = Unlinked
           /\ Fresh # {} /\ Writes(c, NextId)
           /\ users' = [users EXCEPT ![NextId] =
                           Row(c.provider, c.account, calls[c].email)]
  <2>1. c.provider # "none"
    BY HasMail
  <2>2. /\ NextId \in UserId \ (Live \cup spent)
        /\ Live' = Live \cup {NextId} /\ Users'
    BY <1>1, <1>3, <2>1, Inserted
  <2>3. Identities' /\ Lasts' /\ Calls' /\ Stays
    BY <1>1, <1>3, <2>2, Linked
  <2> QED
    BY <2>2, <2>3 DEF IInv
<1> QED
  BY <1>2, <1>3 DEF Creates

(* Who lost the race gets the user of the identity that won it.            *)
LEMMA ResolvesStep ==
  ASSUME IInv, NEW c \in Client, Resolves(c)
  PROVE  IInv' /\ Stays
<1>1. Social(c) /\ UNCHANGED <<users, spent, identities>>
  BY DEF Resolves, IInv, Calls
<1>2. CASE Returns(c, identities[Id(c)].user)
  BY <1>1, <1>2, ReturnsOwn, Unwritten DEF IInv, Stays
<1>3. CASE Throws(c)
  BY <1>1, <1>3, ThrowsStep
<1> QED
  BY <1>2, <1>3 DEF Resolves

(* A user goes with its identities, and its id is spent.                   *)
LEMMA DeleteStep ==
  ASSUME IInv, NEW u \in UserId, DeletesAccount(u)
  PROVE  IInv' /\ Stays
<1>1. /\ u \in Live /\ spent' = spent \cup {u} /\ UNCHANGED <<calls, last>>
      /\ users' = [v \in UserId |-> IF v = u THEN NoRow ELSE users[v]]
      /\ identities' = [i \in Identity |-> IF identities[i].user = u
                                           THEN Unlinked ELSE identities[i]]
  BY DEF DeletesAccount, IInv, Users
<1>2. Live' = Live \ {u} /\ users'[u] = NoRow
  BY <1>1 DEF Live
<1>3. Users'
  BY <1>1, <1>2 DEF IInv, Users, Live
<1>4. /\ Unlinked \in [user : UserId \cup {Nobody}, email : Email]
      /\ Unlinked.user = Nobody
  BY Constants DEF Unlinked
<1>5. Identities'
  BY <1>1, <1>2, <1>4 DEF IInv, Identities
<1>6. Lasts'
  <2>1. \A c \in Client : Social(c) => Id(c) \in Identity
    BY HasIdentity
  <2> QED
    BY <1>1, <1>2, <2>1 DEF IInv, Lasts
<1>7. Calls' /\ Stays
  BY <1>1, <1>2 DEF IInv, Calls, Stays
<1> QED
  BY <1>3, <1>5, <1>6, <1>7 DEF IInv

LEMMA Step == ASSUME IInv, [Next]_vars PROVE IInv' /\ (Stays \/ UNCHANGED vars)
<1>1. ASSUME NEW c \in Client, RegisterBegins(c) \/ SocialBegins(c) \/ Proceeds(c)
      PROVE  IInv' /\ Stays
  BY <1>1, RegisterStep, SocialStep, FindsStep, LinksStep, CreatesStep,
     ResolvesStep DEF Proceeds
<1>2. CASE Deletes
  BY <1>2, DeleteStep DEF Deletes
<1>3. CASE UNCHANGED vars
  BY <1>3, Unwritten DEF vars, IInv, Calls
<1> QED
  BY <1>1, <1>2, <1>3 DEF Next

(* The invariant of the tables and of the requests at work on them.        *)
THEOREM Invariance == Spec => []IInv
<1>1. Init => IInv
  BY InitIInv
<1>2. IInv /\ [Next]_vars => IInv'
  BY Step
<1> QED
  BY <1>1, <1>2, PTL DEF Spec

(* Who signs in again with Google or Apple gets the account it got before, *)
(* and an identity is never given to another user while its own exists,    *)
(* however sign-ins, sign-ups and deletions interleave                     *)
(* (findOrCreateSocialUser).                                               *)
THEOREM AccountsStayHolds == Spec => AccountsStay
<1>1. IInv => TypeOK /\ SameAccount
  BY Sound
<1>2. IInv /\ [Next]_vars =>
        [\A i \in Identity :
           identities[i].user \in Live /\ users'[identities[i].user] # NoRow
             => identities'[i].user = identities[i].user]_vars
  BY Step DEF Stays
<1> QED
  BY <1>1, <1>2, Invariance, PTL DEF Spec, AccountsStay, IdentityStays

-----------------------------------------------------------------------------
(* Who follows and blocks whom (Relationships).                            *)
CONSTANTS User, Call, OpOf, MaxRestarts
VARIABLES memory, rows, gone, standing, lost, clean, restarts

R == INSTANCE Relationships

Ops == {"list", "view", "block", "unblock", "follow", "unfollow", "delete"}

(* A request, and one that has not entered its first stage.                *)
Drafts ==
  [op : Ops, by : User, of : User,
   stage : {"begun", "reading", "writing", "answering", "forgetting"},
   ever : SUBSET R!Link, always : SUBSET R!Link, barred : SUBSET R!Link,
   blind : BOOLEAN]
Requests == {k \in Drafts : k.stage # "begun"}

(* What is true of a request k while the blocks in `stand` stand, memory   *)
(* has lost those in `forgotten`, and nobody named the users in `pure`:    *)
(* no call that takes a block away is under way while it stands, and of    *)
(* the blocks that were in the way of a follow, those that memory lost     *)
(* have been in the table ever since.                                      *)
CallOk(k, stand, forgotten, pure) ==
  /\ k.by # k.of /\ k.ever \subseteq R!Watched(k)
  /\ k.stage = "writing" => k.op \notin {"list", "view"}
  /\ k.stage = "forgetting" => k.op = "delete"
  /\ k.op = "unblock" => R!Block(k.by, k.of) \notin stand
  /\ k.op = "delete" => stand \cap R!About(k.by) = {}
  /\ k.op = "follow" /\ k.stage = "reading" =>
       /\ k.barred \subseteq {R!Block(k.by, k.of), R!Block(k.of, k.by)}
       /\ k.barred \cap forgotten \subseteq k.always
  /\ \A u \in pure :
       /\ k.ever \cap R!About(u) = {}
       /\ k.op \in {"block", "follow"} => u \notin {k.by, k.of}

(* Blocks stand in the table, and in memory unless it has lost them.       *)
LinksInv ==
  /\ rows \subseteq R!Link
  /\ standing \subseteq rows /\ \A l \in standing : l[1] = "block"
  /\ lost \subseteq standing /\ standing \ lost \subseteq memory

Forgotten(u, cs) == \A c \in Call : cs[c].stage # "forgetting" \/ cs[c].by # u

GoneInv ==
  /\ clean \subseteq gone
  /\ \A u \in clean : R!About(u) \cap rows = {}
  /\ \A u \in clean : Forgotten(u, calls) => R!About(u) \cap memory = {}

RelInv ==
  /\ LinksInv /\ GoneInv
  /\ calls \in [Call -> Requests \cup {R!Idle}]
  /\ \A c \in Call : calls[c] # R!Idle => CallOk(calls[c], standing, lost, clean)

-----------------------------------------------------------------------------
LEMMA IdleIsNone ==
  R!Idle \notin Drafts /\ R!Idle.stage = "idle"
<1>1. R!Idle \notin Drafts
  <2> SUFFICES ASSUME R!Idle \in Drafts PROVE FALSE
    OBVIOUS
  <2>1. DOMAIN R!Idle = {"op", "stage"} /\ "by" \in DOMAIN R!Idle
    BY DEF R!Idle, Drafts
  <2> QED
    BY <2>1
<1> QED
  BY <1>1 DEF R!Idle

LEMMA LinkFacts ==
  ASSUME NEW a, NEW b
  PROVE  /\ R!Block(a, b)[1] = "block" /\ R!Follow(a, b)[1] = "follow"
         /\ R!Block(a, b)[2] = a /\ R!Block(a, b)[3] = b
         /\ R!Follow(a, b)[2] = a /\ R!Follow(a, b)[3] = b
         /\ \A l \in R!Follows(a, b) : l[1] = "follow"
         /\ \A u : R!Block(a, b) \in R!About(u) \/ R!Follow(a, b) \in R!About(u)
                     => u \in {a, b}
BY DEF R!Block, R!Follow, R!Follows, R!About

(* What a request asks the tables for is about the users it names.         *)
LEMMA QueriesName ==
  ASSUME NEW k \in Drafts, k.op # "list", NEW u, u \notin {k.by, k.of}
  PROVE  R!Watched(k) \cap R!About(u) = {}
BY DEF R!Watched, R!Queries, R!Follows, R!Block, R!Follow, R!About

LEMMA WatchedSame ==
  ASSUME NEW j \in Drafts, NEW k \in Drafts, j.op = k.op, j.by = k.by, j.of = k.of,
         j.stage = k.stage
  PROVE  R!Watched(j) = R!Watched(k)
BY DEF R!Watched, R!Queries

LEMMA WatchedLinks ==
  ASSUME NEW k \in Drafts, k.stage \in {"writing", "forgetting"}
  PROVE  R!Watched(k) = {}
BY DEF R!Watched

(* A request enters a stage: it sees the tables as they are.               *)
LEMMA EntersFacts ==
  ASSUME NEW k \in Drafts, rows \subseteq R!Link,
         NEW stage \in {"reading", "writing", "answering", "forgetting"}
  PROVE  LET e == R!Enters(k, stage)
         IN  /\ e \in Requests /\ e.stage = stage
             /\ e.op = k.op /\ e.by = k.by /\ e.of = k.of
             /\ e.barred = k.barred /\ e.blind = k.blind
             /\ e.ever = rows \cap R!Watched(e) /\ e.always = rows \cap R!Watched(e)
<1> DEFINE first == [k EXCEPT !.stage = stage]
           seen == rows \cap R!Watched(first)
           second == [first EXCEPT !.ever = seen]
           third == [second EXCEPT !.always = seen]
<1>1. R!Enters(k, stage) = third
  BY DEF R!Enters
<1>2. /\ first \in Drafts /\ first.stage = stage
      /\ first.op = k.op /\ first.by = k.by /\ first.of = k.of
      /\ first.barred = k.barred /\ first.blind = k.blind
  BY DEF Drafts
<1> HIDE DEF first
<1>3. seen \in SUBSET R!Link
  OBVIOUS
<1>4. /\ second \in Drafts /\ second.stage = stage /\ second.ever = seen
      /\ second.op = k.op /\ second.by = k.by /\ second.of = k.of
      /\ second.barred = k.barred /\ second.blind = k.blind
  <2> HIDE DEF seen
  <2> QED
    BY <1>2, <1>3 DEF Drafts
<1> HIDE DEF second
<1>5. /\ third \in Drafts /\ third.stage = stage /\ third.ever = seen /\ third.always = seen
      /\ third.op = k.op /\ third.by = k.by /\ third.of = k.of
      /\ third.barred = k.barred /\ third.blind = k.blind
  <2> HIDE DEF seen
  <2> QED
    BY <1>3, <1>4 DEF Drafts
<1> HIDE DEF third
<1>6. R!Watched(third) = R!Watched(first)
  BY <1>2, <1>5, WatchedSame
<1> QED
  BY <1>1, <1>5, <1>6 DEF Requests

(* Less that stands, is lost or is pure is no harm to a request.           *)
LEMMA OkStays ==
  ASSUME NEW k, NEW stand, NEW forgotten, NEW pure, CallOk(k, stand, forgotten, pure),
         NEW stand2 \in SUBSET stand, NEW forgotten2 \in SUBSET forgotten,
         NEW pure2 \in SUBSET pure
  PROVE  CallOk(k, stand2, forgotten2, pure2)
BY DEF CallOk

(* The tables become `new` while requests may be watching.                 *)
LEMMA StoresFacts ==
  ASSUME NEW cs \in [Call -> Requests \cup {R!Idle}], NEW new \in SUBSET R!Link,
         R!Stores(new, cs)
  PROVE  /\ rows' = new
         /\ calls' \in [Call -> Requests \cup {R!Idle}]
         /\ \A c \in Call : cs[c] = R!Idle => calls'[c] = R!Idle
         /\ \A c \in Call : cs[c] # R!Idle =>
              /\ calls'[c] \in Requests /\ calls'[c] # R!Idle
              /\ calls'[c].op = cs[c].op /\ calls'[c].by = cs[c].by
              /\ calls'[c].of = cs[c].of /\ calls'[c].stage = cs[c].stage
              /\ calls'[c].barred = cs[c].barred /\ calls'[c].blind = cs[c].blind
              /\ calls'[c].ever = cs[c].ever \cup (new \cap R!Watched(cs[c]))
              /\ calls'[c].always = cs[c].always \cap new
              /\ R!Watched(calls'[c]) = R!Watched(cs[c])
<1>1. ASSUME NEW c \in Call, cs[c] # R!Idle
      PROVE  /\ calls'[c] \in Requests /\ calls'[c] # R!Idle
             /\ calls'[c].op = cs[c].op /\ calls'[c].by = cs[c].by
             /\ calls'[c].of = cs[c].of /\ calls'[c].stage = cs[c].stage
             /\ calls'[c].barred = cs[c].barred /\ calls'[c].blind = cs[c].blind
             /\ calls'[c].ever = cs[c].ever \cup (new \cap R!Watched(cs[c]))
             /\ calls'[c].always = cs[c].always \cap new
             /\ R!Watched(calls'[c]) = R!Watched(cs[c])
  <2> DEFINE k == cs[c]
             ever == k.ever \cup (new \cap R!Watched(k))
             always == k.always \cap new
             first == [k EXCEPT !.ever = ever]
             second == [first EXCEPT !.always = always]
  <2>1. k \in Drafts /\ k.stage # "begun"
    BY <1>1 DEF Requests
  <2>2. ever \in SUBSET R!Link /\ always \in SUBSET R!Link
    BY <2>1 DEF Drafts
  <2>3. calls'[c] = second
    <3>1. calls'[c] = [k EXCEPT !.ever = ever, !.always = always]
      BY <1>1 DEF R!Stores
    <3> HIDE DEF k, ever, always
    <3> QED
      BY <2>1, <3>1 DEF Drafts
  <2> HIDE DEF ever, always, k
  <2>4. /\ first \in Drafts /\ first.stage = k.stage /\ first.ever = ever
        /\ first.always = k.always
        /\ first.op = k.op /\ first.by = k.by /\ first.of = k.of
        /\ first.barred = k.barred /\ first.blind = k.blind
    BY <2>1, <2>2 DEF Drafts
  <2> HIDE DEF first
  <2>5. /\ second \in Drafts /\ second.stage = k.stage /\ second.ever = ever
        /\ second.always = always
        /\ second.op = k.op /\ second.by = k.by /\ second.of = k.of
        /\ second.barred = k.barred /\ second.blind = k.blind
    BY <2>2, <2>4 DEF Drafts
  <2> HIDE DEF second
  <2>6. R!Watched(second) = R!Watched(k)
    BY <2>1, <2>5, WatchedSame
  <2> QED
    BY <2>1, <2>3, <2>5, <2>6, IdleIsNone DEF Requests, ever, always, k
<1>2. /\ rows' = new /\ DOMAIN calls' = Call
      /\ calls' = [c \in Call |-> calls'[c]]
      /\ \A c \in Call : cs[c] = R!Idle => calls'[c] = R!Idle
  BY DEF R!Stores
<1> QED
  BY <1>1, <1>2
-----------------------------------------------------------------------------
(* Blocks only go, and are lost, if other calls or a restart say so: what  *)
(* a step must show when one call moves and the tables stay.               *)
LEMMA OneMoves ==
  ASSUME RelInv, NEW c \in Call, NEW e \in Requests \cup {R!Idle},
         calls' = [calls EXCEPT ![c] = e], rows' = rows, gone' = gone,
         standing' \subseteq standing, lost' \subseteq lost, clean' \subseteq clean,
         lost' \subseteq standing', standing' \ lost' \subseteq memory',
         e # R!Idle => CallOk(e, standing', lost', clean'),
         \A u \in clean' : Forgotten(u, calls') => R!About(u) \cap memory' = {}
  PROVE  RelInv'
<1>1. LinksInv'
  BY DEF RelInv, LinksInv
<1>2. GoneInv'
  BY DEF RelInv, GoneInv, Forgotten
<1>3. calls' \in [Call -> Requests \cup {R!Idle}]
  BY DEF RelInv
<1>4. ASSUME NEW d \in Call, calls'[d] # R!Idle
      PROVE  CallOk(calls'[d], standing', lost', clean')
  <2>1. CASE d = c
    BY <1>4, <2>1 DEF RelInv
  <2>2. CASE d # c
    <3>1. calls'[d] = calls[d]
      BY <2>2 DEF RelInv
    <3>2. CallOk(calls[d], standing, lost, clean)
      BY <1>4, <3>1 DEF RelInv
    <3> QED
      BY <3>1, <3>2, OkStays
  <2> QED
    BY <2>1, <2>2
<1> QED
  BY <1>1, <1>2, <1>3, <1>4 DEF RelInv

(* Only a follow that is reading can be the one that follows; a step that  *)
(* takes nobody from reading to writing follows nobody.                    *)
LEMMA NobodyFollows ==
  ASSUME \A d \in Call : calls[d].stage = "reading" => calls'[d].stage # "writing"
  PROVE  R!BlockForbidsFollow
BY DEF R!BlockForbidsFollow, R!Is

LEMMA BeginsStep ==
  ASSUME R!RelationAssumption, RelInv, NEW c \in Call, NEW op \in OpOf[c],
         NEW a \in User, NEW b \in User, R!Begins(c, op, a, b)
  PROVE  RelInv' /\ R!BlockForbidsFollow
<1> DEFINE barred == IF op = "follow" THEN standing \cap {R!Block(a, b), R!Block(b, a)}
                     ELSE {}
           k == [op |-> op, by |-> a, of |-> b, ever |-> {}, always |-> {},
                 barred |-> barred, stage |-> "begun", blind |-> FALSE]
           stage == IF op \in {"block", "unblock", "delete"} THEN "writing" ELSE "reading"
           e == R!Enters(k, stage)
<1>1. /\ calls[c] = R!Idle /\ a # b /\ a \notin gone
      /\ calls' = [calls EXCEPT ![c] = e]
      /\ memory' = CASE op = "block"   -> (memory \ R!Follows(a, b)) \cup {R!Block(a, b)}
                     [] op = "unblock" -> memory \ {R!Block(a, b)}
                     [] OTHER          -> memory
      /\ standing' = CASE op = "unblock" -> standing \ {R!Block(a, b)}
                       [] op = "delete"  -> standing \ R!About(a)
                       [] OTHER          -> standing
      /\ lost' = lost \cap standing'
      /\ clean' = IF op \in {"block", "follow"} THEN clean \ {a, b} ELSE clean
      /\ rows' = rows /\ gone' = gone
  BY DEF R!Begins, R!Busy
<1>2. op \in Ops
  BY DEF R!RelationAssumption, Ops
<1>3. barred \subseteq standing /\ barred \subseteq {R!Block(a, b), R!Block(b, a)}
  OBVIOUS
<1>4. standing \subseteq rows /\ rows \subseteq R!Link /\ lost \subseteq standing
      /\ standing \ lost \subseteq memory /\ \A l \in standing : l[1] = "block"
  BY DEF RelInv, LinksInv
<1>5. k \in Drafts
  <2>1. barred \in SUBSET R!Link
    BY <1>3, <1>4
  <2> HIDE DEF barred
  <2> QED
    BY <1>2, <2>1 DEF Drafts
<1>6. /\ k.op = op /\ k.by = a /\ k.of = b /\ k.barred = barred
  OBVIOUS
<1>7. stage \in {"reading", "writing"} /\ (stage = "writing" => op \notin {"list", "view"})
      /\ (op = "follow" => stage = "reading")
  OBVIOUS
<1> HIDE DEF k, barred, stage
<1>8. /\ e \in Requests /\ e.stage = stage /\ e.op = op /\ e.by = a /\ e.of = b
      /\ e.barred = barred
      /\ e.ever = rows \cap R!Watched(e) /\ e.always = rows \cap R!Watched(e)
  BY <1>4, <1>5, <1>6, <1>7, EntersFacts
<1> HIDE DEF e
<1>9. standing' \subseteq standing /\ lost' \subseteq lost /\ clean' \subseteq clean
      /\ lost' \subseteq standing'
  BY <1>1
<1>10. standing' \ lost' \subseteq memory'
  <2> SUFFICES ASSUME NEW l \in standing', l \notin lost' PROVE l \in memory'
    OBVIOUS
  <2>1. l \in standing /\ l \in memory /\ l[1] = "block"
    BY <1>1, <1>4, <1>9
  <2>2. l \notin R!Follows(a, b)
    BY <2>1, LinkFacts
  <2>3. op = "unblock" => l # R!Block(a, b)
    BY <1>1
  <2> QED
    BY <1>1, <2>1, <2>2, <2>3
<1>11. \A u \in clean' : R!About(u) \cap rows = {} /\ (op \in {"block", "follow"} => u \notin {a, b})
  BY <1>1, <1>9 DEF RelInv, GoneInv
<1>12. CallOk(e, standing', lost', clean')
  <2>1. op = "unblock" => R!Block(a, b) \notin standing'
    BY <1>1
  <2>2. op = "delete" => standing' \cap R!About(a) = {}
    BY <1>1
  <2>3. op = "follow" => barred \cap lost' \subseteq e.always
    <3> SUFFICES ASSUME op = "follow", NEW l \in barred PROVE l \in e.always
      OBVIOUS
    <3>1. l \in rows /\ l \in {R!Block(a, b), R!Block(b, a)}
      BY <1>3, <1>4
    <3>2. l \in R!Watched(e)
      BY <1>7, <1>8, <3>1 DEF R!Watched, R!Queries
    <3> QED
      BY <1>8, <3>1, <3>2
  <2>4. \A u \in clean' : e.ever \cap R!About(u) = {}
    BY <1>8, <1>11
  <2> QED
    BY <1>1, <1>3, <1>7, <1>8, <1>11, <2>1, <2>2, <2>3, <2>4 DEF CallOk
<1>13. ASSUME NEW u \in clean', Forgotten(u, calls')
       PROVE  R!About(u) \cap memory' = {}
  <2>1. Forgotten(u, calls)
    BY <1>1, <1>13, IdleIsNone DEF Forgotten, RelInv
  <2>2. R!About(u) \cap memory = {}
    BY <1>9, <2>1 DEF RelInv, GoneInv
  <2>3. op = "block" => R!Block(a, b) \notin R!About(u)
    BY <1>11, LinkFacts
  <2> QED
    BY <1>1, <2>2, <2>3
<1>14. RelInv'
  BY <1>1, <1>8, <1>9, <1>10, <1>12, <1>13, OneMoves
<1>15. \A d \in Call : calls[d].stage = "reading" => calls'[d].stage # "writing"
  BY <1>1, IdleIsNone DEF RelInv
<1> QED
  BY <1>14, <1>15, NobodyFollows

(* A read ends, and its request goes on with what it found.                *)
LEMMA ContinuesStep ==
  ASSUME R!RelationAssumption, RelInv, NEW c \in Call,
         calls[c].stage \in {"reading", "answering"},
         NEW found \in SUBSET calls[c].ever, NEW blind \in BOOLEAN,
         blind \/ R!Queries(calls[c]) \cap calls[c].always \subseteq found,
         R!Continues(c, found, blind),
         UNCHANGED <<rows, gone, standing, lost, clean>>
  PROVE  RelInv' /\ R!BlockForbidsFollow
<1> DEFINE k == calls[c]
           m == memory \cup found
           f == R!Follow(k.by, k.of)
           first == [k EXCEPT !.barred = {}]
           second == [first EXCEPT !.blind = blind]
           e == R!Enters(second, "writing")
           follows == /\ k.stage = "reading" /\ k.op = "follow"
                      /\ ~R!Barred(k.by, k.of, m)
           unfollows == k.stage = "reading" /\ k.op = "unfollow"
<1>1. k # R!Idle /\ k \in Drafts /\ k \in Requests
  BY IdleIsNone DEF RelInv, Requests
<1>2. CallOk(k, standing, lost, clean)
  BY <1>1 DEF RelInv
<1>3. \/ follows /\ memory' = m \cup {f} /\ calls' = [calls EXCEPT ![c] = e]
      \/ unfollows /\ memory' = m \ {f} /\ calls' = [calls EXCEPT ![c] = e]
      \/ memory' = m /\ calls' = [calls EXCEPT ![c] = R!Idle]
  <2>1. second = [k EXCEPT !.barred = {}, !.blind = blind]
    BY <1>1 DEF Drafts
  <2> HIDE DEF second, follows, unfollows
  <2> QED
    BY <2>1 DEF R!Continues, follows, unfollows
<1>4. /\ second \in Drafts /\ second.op = k.op /\ second.by = k.by /\ second.of = k.of
      /\ second.blind = blind
  <2>1. first \in Drafts /\ first.op = k.op /\ first.by = k.by /\ first.of = k.of
    BY <1>1 DEF Drafts
  <2> HIDE DEF first
  <2> QED
    BY <2>1 DEF Drafts
<1>5. rows \subseteq R!Link /\ standing \ lost \subseteq memory /\ lost \subseteq standing
      /\ \A l \in standing : l[1] = "block"
  BY DEF RelInv, LinksInv
<1> HIDE DEF second
<1>6. /\ e \in Requests /\ e.stage = "writing" /\ e.op = k.op /\ e.by = k.by /\ e.of = k.of
      /\ e.blind = blind
      /\ e.ever = rows \cap R!Watched(e)
  BY <1>4, <1>5, EntersFacts
<1> HIDE DEF e, k
<1>7. k.op \in {"follow", "unfollow"} => CallOk(e, standing, lost, clean)
  <2>1. e.ever = {}
    BY <1>6, WatchedLinks DEF Requests
  <2>2. \A u \in clean : k.op \in {"block", "follow"} => u \notin {k.by, k.of}
    BY <1>2 DEF CallOk
  <2> QED
    BY <1>2, <1>6, <2>1, <2>2 DEF CallOk
<1>8. \A u \in clean : found \cap R!About(u) = {}
  BY <1>2 DEF CallOk, k
<1>9. standing \ lost \subseteq memory'
  <2> SUFFICES ASSUME NEW l \in standing, l \notin lost PROVE l \in memory'
    OBVIOUS
  <2>1. l \in memory /\ l # f
    BY <1>5, LinkFacts
  <2> HIDE DEF f
  <2> QED
    BY <1>3, <2>1
<1>10. ASSUME NEW u \in clean, Forgotten(u, calls')
       PROVE  R!About(u) \cap memory' = {}
  <2>1. Forgotten(u, calls)
    BY <1>3, <1>10 DEF Forgotten, RelInv, k
  <2>2. R!About(u) \cap m = {}
    BY <1>8, <2>1 DEF RelInv, GoneInv
  <2>3. follows => f \notin R!About(u)
    BY <1>2, LinkFacts DEF CallOk
  <2> HIDE DEF m, f, follows
  <2> QED
    BY <1>3, <2>2, <2>3
<1>11. RelInv'
  <2> HIDE DEF m, f
  <2>1. CASE calls' = [calls EXCEPT ![c] = e] /\ k.op \in {"follow", "unfollow"}
    BY <1>5, <1>6, <1>7, <1>9, <1>10, <2>1, OneMoves
  <2>2. CASE calls' = [calls EXCEPT ![c] = R!Idle]
    BY <1>5, <1>9, <1>10, <2>2, OneMoves
  <2> QED
    BY <1>3, <2>1, <2>2
<1>12. R!BlockForbidsFollow
  <2> SUFFICES ASSUME NEW d \in Call, calls[d].stage = "reading", calls[d].op = "follow",
                      calls'[d].stage = "writing",
                      NEW l \in calls[d].barred \cap standing
               PROVE  calls'[d].blind /\ l \in lost
    BY DEF R!BlockForbidsFollow, R!Is
  <2>1. d = c
    BY <1>3 DEF RelInv
  <2>2. calls'[c] = e /\ follows
    BY <1>3, <2>1, IdleIsNone DEF RelInv, k
  <2>3. l \in {R!Block(k.by, k.of), R!Block(k.of, k.by)}
        /\ (l \in lost => l \in k.always)
    BY <1>2, <2>1 DEF CallOk, k
  <2>4. l \notin m
    BY <2>2, <2>3 DEF R!Barred
  <2>5. l \in lost
    BY <1>5, <2>4
  <2>6. l \in R!Queries(k)
    BY <2>1, <2>3 DEF R!Queries, k
  <2>7. blind
    BY <2>3, <2>4, <2>5, <2>6 DEF k
  <2> QED
    BY <1>6, <2>1, <2>2, <2>5, <2>7
<1> QED
  BY <1>11, <1>12

LEMMA ReadsStep ==
  ASSUME R!RelationAssumption, RelInv, NEW c \in Call, R!ReadEnds(c) \/ R!ReadFails(c)
  PROVE  RelInv' /\ R!BlockForbidsFollow
<1>1. /\ calls[c].stage \in {"reading", "answering"}
      /\ UNCHANGED <<rows, gone, standing, lost, clean>>
  BY DEF R!ReadEnds, R!ReadFails, R!Is
<1>2. CASE R!ReadEnds(c)
  <2>1. PICK found \in SUBSET (R!Queries(calls[c]) \cap calls[c].ever) :
          /\ R!Queries(calls[c]) \cap calls[c].always \subseteq found
          /\ R!Continues(c, found, FALSE)
    BY <1>2 DEF R!ReadEnds
  <2>2. found \in SUBSET calls[c].ever
    OBVIOUS
  <2> QED
    BY <1>1, <2>1, <2>2, ContinuesStep
<1>3. CASE R!ReadFails(c)
  <2>1. R!Continues(c, {}, TRUE) /\ {} \in SUBSET calls[c].ever
    BY <1>3 DEF R!ReadFails
  <2> QED
    BY <1>1, <2>1, ContinuesStep
<1> QED
  BY <1>2, <1>3
(* The request after its write: it reads once more, or is done.            *)
LEMMA AfterWriteFacts ==
  ASSUME RelInv, NEW c \in Call, calls[c].stage = "writing"
  PROVE  /\ R!AfterWrite(c) \in [Call -> Requests \cup {R!Idle}]
         /\ \A d \in Call \ {c} : R!AfterWrite(c)[d] = calls[d]
         /\ R!AfterWrite(c)[c] # R!Idle =>
              /\ calls[c].op \in {"follow", "unfollow"}
              /\ R!AfterWrite(c)[c].stage = "answering"
              /\ CallOk(R!AfterWrite(c)[c], standing, lost, clean)
<1> DEFINE k == calls[c]  e == R!Enters(k, "answering")
<1>1. k \in Drafts /\ k # R!Idle
  BY IdleIsNone DEF RelInv, Requests
<1>2. CallOk(k, standing, lost, clean) /\ rows \subseteq R!Link
  BY <1>1 DEF RelInv, LinksInv
<1>3. /\ e \in Requests /\ e.stage = "answering" /\ e.op = k.op /\ e.by = k.by
      /\ e.of = k.of /\ e.ever = rows \cap R!Watched(e)
  BY <1>1, <1>2, EntersFacts
<1>4. R!AfterWrite(c) = IF k.op \in {"follow", "unfollow"} THEN [calls EXCEPT ![c] = e]
                        ELSE [calls EXCEPT ![c] = R!Idle]
  BY DEF R!AfterWrite
<1> HIDE DEF e
<1>5. k.op \in {"follow", "unfollow"} => CallOk(e, standing, lost, clean)
  <2>1. \A u \in clean : /\ e.ever \cap R!About(u) = {}
                         /\ k.op \in {"block", "follow"} => u \notin {k.by, k.of}
    BY <1>2, <1>3 DEF CallOk, RelInv, GoneInv
  <2> HIDE DEF k
  <2> QED
    BY <1>2, <1>3, <2>1 DEF CallOk
<1> QED
  BY <1>3, <1>4, <1>5 DEF RelInv

LEMMA WriteFailsStep ==
  ASSUME R!RelationAssumption, RelInv, NEW c \in Call, R!WriteFails(c)
  PROVE  RelInv' /\ R!BlockForbidsFollow
<1>1. /\ calls[c].stage = "writing"
      /\ UNCHANGED <<memory, rows, gone, standing, lost, clean>>
      /\ calls' = [calls EXCEPT ![c] = R!Idle] \/ calls' = R!AfterWrite(c)
  BY DEF R!WriteFails, R!Is
<1>2. lost \subseteq standing /\ standing \ lost \subseteq memory
  BY DEF RelInv, LinksInv
<1>3. PICK e \in Requests \cup {R!Idle} :
        /\ calls' = [calls EXCEPT ![c] = e]
        /\ e # R!Idle => e.stage = "answering" /\ CallOk(e, standing, lost, clean)
  <2>1. CASE calls' = [calls EXCEPT ![c] = R!Idle]
    BY <2>1
  <2>2. CASE calls' = R!AfterWrite(c)
    <3>1. calls' = [calls EXCEPT ![c] = R!AfterWrite(c)[c]]
      BY <1>1, <2>2, AfterWriteFacts DEF RelInv
    <3> QED
      BY <1>1, <2>2, <3>1, AfterWriteFacts
  <2> QED
    BY <1>1, <2>1, <2>2
<1>4. \A u \in clean : Forgotten(u, calls') => R!About(u) \cap memory' = {}
  BY <1>1, <1>3 DEF Forgotten, RelInv, GoneInv
<1>5. RelInv'
  BY <1>1, <1>2, <1>3, <1>4, OneMoves
<1>6. \A d \in Call : calls[d].stage = "reading" => calls'[d].stage # "writing"
  BY <1>1, <1>3, IdleIsNone DEF RelInv
<1> QED
  BY <1>5, <1>6, NobodyFollows

(* The tables after a write that is no deletion.                           *)
LEMMA WrittenFacts ==
  ASSUME RelInv, NEW k \in Drafts, CallOk(k, standing, lost, clean),
         k.op \in {"block", "unblock", "follow", "unfollow"}
  PROVE  /\ R!Written(k) \subseteq R!Link
         /\ standing \subseteq R!Written(k)
         /\ k.op = "block" => R!Block(k.by, k.of) \in R!Written(k)
         /\ \A u \in clean : R!About(u) \cap R!Written(k) = {}
<1> DEFINE b == R!Block(k.by, k.of)  f == R!Follow(k.by, k.of)
           both == R!Follows(k.by, k.of)
<1>1. \/ k.op = "block" /\ R!Written(k) = (rows \ both) \cup {b}
      \/ k.op = "unblock" /\ R!Written(k) = rows \ {b}
      \/ k.op = "follow" /\ R!Written(k) = rows \cup {f}
      \/ k.op = "unfollow" /\ R!Written(k) = rows \ {f}
  BY DEF R!Written
<1>2. b \in R!Link /\ f \in R!Link
  BY DEF R!Link, R!Block, R!Follow, Drafts, CallOk
<1>3. \A l \in standing : l \in rows /\ l \notin both /\ l # f
  <2>1. \A l \in standing : l \in rows /\ l[1] = "block"
    BY DEF RelInv, LinksInv
  <2>2. f[1] = "follow" /\ \A l \in both : l[1] = "follow"
    BY LinkFacts
  <2> HIDE DEF f, both
  <2> QED
    BY <2>1, <2>2
<1>4. k.op = "unblock" => b \notin standing
  BY DEF CallOk
<1>5. \A u \in clean : /\ R!About(u) \cap rows = {}
                       /\ k.op = "block" => b \notin R!About(u)
                       /\ k.op = "follow" => f \notin R!About(u)
  BY LinkFacts DEF CallOk, RelInv, GoneInv
<1>6. rows \subseteq R!Link
  BY DEF RelInv, LinksInv
<1> HIDE DEF b, f, both
<1>7. R!Written(k) \subseteq R!Link
  BY <1>1, <1>2, <1>6
<1>8. standing \subseteq R!Written(k)
  BY <1>1, <1>3, <1>4
<1>9. \A u \in clean : R!About(u) \cap R!Written(k) = {}
  BY <1>1, <1>5
<1> QED
  BY <1>1, <1>7, <1>8, <1>9 DEF b

(* A request that watched the tables while they became `new`.              *)
LEMMA WatchedOk ==
  ASSUME NEW k \in Drafts, NEW n \in Drafts, NEW new,
         NEW stand, NEW forgotten, NEW pure,
         NEW stand2, NEW forgotten2, NEW pure2,
         CallOk(k, stand, forgotten, pure),
         forgotten2 \subseteq forgotten, forgotten2 \subseteq new,
         n.op = k.op, n.by = k.by, n.of = k.of, n.stage = k.stage, n.barred = k.barred,
         n.ever = k.ever \cup (new \cap R!Watched(k)), n.always = k.always \cap new,
         R!Watched(n) = R!Watched(k),
         k.op = "unblock" => R!Block(k.by, k.of) \notin stand2,
         k.op = "delete" => stand2 \cap R!About(k.by) = {},
         \A u \in pure2 :
           /\ n.ever \cap R!About(u) = {}
           /\ k.op \in {"block", "follow"} => u \notin {k.by, k.of}
  PROVE  CallOk(n, stand2, forgotten2, pure2)
<1>1. n.by # n.of /\ n.ever \subseteq R!Watched(n)
  BY DEF CallOk
<1>2. k.op = "follow" /\ k.stage = "reading" =>
        /\ k.barred \subseteq {R!Block(k.by, k.of), R!Block(k.of, k.by)}
        /\ k.barred \cap forgotten2 \subseteq n.always
  BY DEF CallOk
<1>3. /\ k.stage = "writing" => k.op \notin {"list", "view"}
      /\ k.stage = "forgetting" => k.op = "delete"
  BY DEF CallOk
<1> QED
  BY <1>1, <1>2, <1>3 DEF CallOk

LEMMA WriteEndsStep ==
  ASSUME R!RelationAssumption, RelInv, NEW c \in Call, R!WriteEnds(c)
  PROVE  RelInv' /\ R!BlockForbidsFollow
<1> DEFINE k == calls[c]  b == R!Block(k.by, k.of)  cs == R!AfterWrite(c)
           opposed == \E d \in Call \ {c} :
             /\ calls[d] # R!Idle
             /\ \/ calls[d].op = "unblock" /\ calls[d].by = k.by /\ calls[d].of = k.of
                \/ calls[d].op = "delete" /\ calls[d].by \in {k.by, k.of}
           new == R!Written(k)
<1>1. /\ k.stage = "writing" /\ k.op # "delete" /\ R!Stores(new, cs)
      /\ UNCHANGED <<memory, gone, clean>>
      /\ \/ /\ k.op = "block" /\ ~opposed /\ b \in memory
            /\ standing' = standing \cup {b} /\ lost' = lost \ {b}
         \/ UNCHANGED <<standing, lost>>
  BY DEF R!WriteEnds, R!Is, R!Busy
<1>2. k \in Drafts /\ k # R!Idle /\ CallOk(k, standing, lost, clean)
  BY <1>1, IdleIsNone DEF RelInv, Requests
<1> HIDE DEF opposed
<1>3. k.op \in {"block", "unblock", "follow", "unfollow"}
  BY <1>1, <1>2 DEF CallOk, Drafts, Ops
<1>4. /\ new \subseteq R!Link /\ standing \subseteq new
      /\ k.op = "block" => b \in new
      /\ \A u \in clean : R!About(u) \cap new = {}
  BY <1>2, <1>3, WrittenFacts
<1>5. /\ cs \in [Call -> Requests \cup {R!Idle}]
      /\ \A d \in Call \ {c} : cs[d] = calls[d]
      /\ cs[c] # R!Idle =>
           /\ k.op \in {"follow", "unfollow"} /\ cs[c].stage = "answering"
           /\ CallOk(cs[c], standing, lost, clean)
  BY <1>1, AfterWriteFacts
<1>6. standing \subseteq standing' /\ standing' \subseteq standing \cup {b}
      /\ lost' \subseteq lost /\ lost' \subseteq standing'
      /\ (b \notin standing => standing' = standing \/ (~opposed /\ k.op = "block"))
      /\ (standing' # standing => ~opposed /\ k.op = "block")
      /\ standing' \ lost' \subseteq memory /\ lost \subseteq standing
  <2>1. lost \subseteq standing /\ standing \ lost \subseteq memory
    BY DEF RelInv, LinksInv
  <2> HIDE DEF k, b
  <2> QED
    BY <1>1, <2>1
<1> HIDE DEF cs, new
<1>7. /\ rows' = new
      /\ calls' \in [Call -> Requests \cup {R!Idle}]
      /\ \A d \in Call : cs[d] = R!Idle => calls'[d] = R!Idle
      /\ \A d \in Call : cs[d] # R!Idle =>
           /\ calls'[d] \in Requests /\ calls'[d] # R!Idle
           /\ calls'[d].op = cs[d].op /\ calls'[d].by = cs[d].by
           /\ calls'[d].of = cs[d].of /\ calls'[d].stage = cs[d].stage
           /\ calls'[d].barred = cs[d].barred
           /\ calls'[d].ever = cs[d].ever \cup (new \cap R!Watched(cs[d]))
           /\ calls'[d].always = cs[d].always \cap new
           /\ R!Watched(calls'[d]) = R!Watched(cs[d])
  <2>1. new \in SUBSET R!Link
    BY <1>4
  <2> QED
    BY <1>1, <1>5, <2>1, StoresFacts
<1>8. LinksInv'
  <2>1. standing' \subseteq new
    BY <1>1, <1>4
  <2>2. b[1] = "block"
    BY LinkFacts
  <2>3. \A l \in standing' : l[1] = "block"
    BY <1>6, <2>2 DEF RelInv, LinksInv
  <2> QED
    BY <1>1, <1>4, <1>6, <1>7, <2>1, <2>3 DEF LinksInv
<1>9. ASSUME NEW d \in Call, calls'[d] # R!Idle
      PROVE  CallOk(calls'[d], standing', lost', clean')
  <2> DEFINE j == cs[d]  n == calls'[d]
  <2>1. j # R!Idle
    BY <1>7, <1>9
  <2>2. j \in Drafts /\ n \in Drafts /\ CallOk(j, standing, lost, clean)
    <3>1. j \in Requests /\ n \in Requests
      BY <1>5, <1>7, <2>1
    <3>2. CASE d = c
      BY <1>5, <2>1, <3>1, <3>2 DEF Requests
    <3>3. CASE d # c
      <4>1. j = calls[d] /\ calls[d] # R!Idle
        BY <1>5, <2>1, <3>3
      <4> QED
        BY <3>1, <4>1 DEF Requests, RelInv
    <3> QED
      BY <3>2, <3>3
  <2>3. lost' \subseteq new
    BY <1>4, <1>6
  <2>4. ASSUME standing' # standing
        PROVE  /\ j.op = "unblock" => R!Block(j.by, j.of) # b
               /\ j.op = "delete" => b \notin R!About(j.by)
    <3>1. ~opposed /\ k.op = "block"
      BY <1>6, <2>4
    <3>2. d # c
      BY <1>5, <2>1, <3>1
    <3>3. j = calls[d] /\ calls[d] # R!Idle
      BY <1>5, <2>1, <3>2
    <3>4. /\ ~(j.op = "unblock" /\ j.by = k.by /\ j.of = k.of)
          /\ ~(j.op = "delete" /\ j.by \in {k.by, k.of})
      BY <3>1, <3>2, <3>3 DEF opposed
    <3>5. R!Block(j.by, j.of) = b => j.by = k.by /\ j.of = k.of
      <4> HIDE DEF j, k
      <4> QED
        BY DEF R!Block
    <3>6. b \in R!About(j.by) => j.by \in {k.by, k.of}
      BY LinkFacts
    <3> QED
      BY <3>4, <3>5, <3>6
  <2>5. j.op = "unblock" => R!Block(j.by, j.of) \notin standing'
    BY <1>6, <2>2, <2>4 DEF CallOk
  <2>6. j.op = "delete" => standing' \cap R!About(j.by) = {}
    BY <1>6, <2>2, <2>4 DEF CallOk
  <2>7. \A u \in clean' : /\ n.ever \cap R!About(u) = {}
                          /\ j.op \in {"block", "follow"} => u \notin {j.by, j.of}
    BY <1>1, <1>4, <1>7, <2>1, <2>2 DEF CallOk
  <2>8. /\ n.op = j.op /\ n.by = j.by /\ n.of = j.of /\ n.stage = j.stage
        /\ n.barred = j.barred
        /\ n.ever = j.ever \cup (new \cap R!Watched(j)) /\ n.always = j.always \cap new
        /\ R!Watched(n) = R!Watched(j)
    BY <1>7, <2>1
  <2> HIDE DEF j, n, b
  <2>9. CallOk(n, standing', lost', clean')
    BY <1>6, <2>2, <2>3, <2>5, <2>6, <2>7, <2>8, WatchedOk
  <2> QED
    BY <2>9 DEF n
<1>10. \A d \in Call : calls[d].stage \in {"forgetting", "reading"} =>
         calls'[d].stage = calls[d].stage /\ calls'[d].by = calls[d].by
  <2> SUFFICES ASSUME NEW d \in Call, calls[d].stage \in {"forgetting", "reading"}
               PROVE  calls'[d].stage = calls[d].stage /\ calls'[d].by = calls[d].by
    OBVIOUS
  <2>1. cs[d] = calls[d] /\ cs[d] # R!Idle
    BY <1>1, <1>5, IdleIsNone
  <2> QED
    BY <1>7, <2>1
<1>11. GoneInv'
  <2>1. \A u : Forgotten(u, calls') => Forgotten(u, calls)
    BY <1>10 DEF Forgotten
  <2> QED
    BY <1>1, <1>4, <1>7, <2>1 DEF GoneInv, RelInv
<1>12. RelInv'
  BY <1>7, <1>8, <1>9, <1>11 DEF RelInv
<1>13. R!BlockForbidsFollow
  BY <1>10, NobodyFollows
<1> QED
  BY <1>12, <1>13

(* An account is deleted: nobody's tables name it any more, and its request *)
(* is about to make memory forget it.                                       *)
LEMMA DeleteCommitsStep ==
  ASSUME R!RelationAssumption, RelInv, NEW c \in Call, R!DeleteCommits(c)
  PROVE  RelInv' /\ R!BlockForbidsFollow
<1> DEFINE k == calls[c]  u == k.by  j == [k EXCEPT !.stage = "forgetting"]
           cs == [calls EXCEPT ![c] = j]  new == rows \ R!About(u)
           named == \E d \in Call \ {c} : R!Names(d, u)
<1>1. /\ k.stage = "writing" /\ k.op = "delete" /\ u \notin gone /\ gone' = gone \cup {u}
      /\ R!Stores(new, [calls EXCEPT ![c].stage = "forgetting"])
      /\ clean' = IF named THEN clean ELSE clean \cup {u}
      /\ standing' = standing \ R!About(u) /\ lost' = lost \ R!About(u)
      /\ memory' = memory
  BY DEF R!DeleteCommits, R!Is
<1>2. k \in Drafts /\ k # R!Idle /\ CallOk(k, standing, lost, clean)
  BY <1>1, IdleIsNone DEF RelInv, Requests
<1>3. R!Stores(new, cs)
  <2>1. [calls EXCEPT ![c].stage = "forgetting"] = cs
    OBVIOUS
  <2> HIDE DEF cs, new, u
  <2> QED
    BY <1>1, <2>1
<1>4. /\ j \in Requests /\ j \in Drafts /\ j.stage = "forgetting" /\ j.op = "delete"
      /\ j.by = u /\ j.of = k.of /\ j.ever = {}
  <2>1. k.ever = {}
    BY <1>1, <1>2, WatchedLinks DEF CallOk
  <2> HIDE DEF k
  <2> QED
    BY <1>1, <1>2, <2>1 DEF Drafts, Requests, k
<1>5. CallOk(j, standing, lost, clean)
  BY <1>1, <1>2, <1>4 DEF CallOk
<1>6. standing' = standing /\ lost' = lost
  BY <1>1, <1>2 DEF CallOk, RelInv, LinksInv
<1> HIDE DEF j, named
<1>7. /\ cs \in [Call -> Requests \cup {R!Idle}] /\ cs[c] = j /\ j # R!Idle
      /\ \A d \in Call \ {c} : cs[d] = calls[d]
  BY <1>4, IdleIsNone DEF RelInv
<1>8. new \in SUBSET R!Link
  BY DEF RelInv, LinksInv
<1> HIDE DEF cs, new, u
<1>9. /\ rows' = new
      /\ calls' \in [Call -> Requests \cup {R!Idle}]
      /\ \A d \in Call : cs[d] = R!Idle => calls'[d] = R!Idle
      /\ \A d \in Call : cs[d] # R!Idle =>
           /\ calls'[d] \in Requests /\ calls'[d] # R!Idle
           /\ calls'[d].op = cs[d].op /\ calls'[d].by = cs[d].by
           /\ calls'[d].of = cs[d].of /\ calls'[d].stage = cs[d].stage
           /\ calls'[d].barred = cs[d].barred
           /\ calls'[d].ever = cs[d].ever \cup (new \cap R!Watched(cs[d]))
           /\ calls'[d].always = cs[d].always \cap new
           /\ R!Watched(calls'[d]) = R!Watched(cs[d])
  BY <1>3, <1>7, <1>8, StoresFacts
<1>10. /\ new \cap R!About(u) = {} /\ new \subseteq rows /\ standing \subseteq new
       /\ lost \subseteq standing /\ rows \subseteq R!Link
       /\ \A v \in clean : R!About(v) \cap rows = {}
  BY <1>1, <1>6 DEF RelInv, LinksInv, GoneInv, new
<1>11. LinksInv'
  BY <1>1, <1>6, <1>9, <1>10 DEF RelInv, LinksInv
<1>12. ASSUME NEW d \in Call, calls'[d] # R!Idle
       PROVE  CallOk(calls'[d], standing', lost', clean')
  <2> DEFINE i == cs[d]  n == calls'[d]
  <2>1. i # R!Idle
    BY <1>9, <1>12
  <2>2. /\ i \in Drafts /\ n \in Drafts /\ CallOk(i, standing, lost, clean)
        /\ d # c => i = calls[d] /\ calls[d] # R!Idle
    <3>1. i \in Requests /\ n \in Requests
      BY <1>7, <1>9, <2>1
    <3>2. CASE d = c
      BY <1>5, <1>7, <3>1, <3>2 DEF Requests
    <3>3. CASE d # c
      <4>1. i = calls[d] /\ calls[d] # R!Idle
        BY <1>7, <2>1, <3>3
      <4> QED
        BY <3>1, <3>3, <4>1 DEF Requests, RelInv
    <3> QED
      BY <3>2, <3>3
  <2>3. /\ n.op = i.op /\ n.by = i.by /\ n.of = i.of /\ n.stage = i.stage
        /\ n.barred = i.barred
        /\ n.ever = i.ever \cup (new \cap R!Watched(i)) /\ n.always = i.always \cap new
        /\ R!Watched(n) = R!Watched(i)
    BY <1>9, <2>1
  <2>4. ASSUME NEW v \in clean'
        PROVE  /\ n.ever \cap R!About(v) = {}
               /\ i.op \in {"block", "follow"} => v \notin {i.by, i.of}
    <3>1. CASE v \in clean
      <4>1. new \cap R!About(v) = {}
        BY <1>10, <3>1
      <4> QED
        BY <2>2, <2>3, <3>1, <4>1 DEF CallOk
    <3>2. CASE v = u /\ ~named /\ d # c
      <4>1. i.op # "list" /\ u \notin {i.by, i.of}
        BY <2>2, <3>2 DEF named, R!Names, R!Busy
      <4>2. R!Watched(i) \cap R!About(u) = {} /\ i.ever \subseteq R!Watched(i)
        BY <2>2, <4>1, QueriesName DEF CallOk
      <4> QED
        BY <2>3, <3>2, <4>1, <4>2
    <3>3. CASE d = c
      <4>1. i = j /\ R!Watched(j) = {}
        BY <1>4, <1>7, <3>3, WatchedLinks
      <4> QED
        BY <1>4, <2>3, <4>1
    <3> QED
      BY <1>1, <3>1, <3>2, <3>3
  <2>5. /\ i.op = "unblock" => R!Block(i.by, i.of) \notin standing'
        /\ i.op = "delete" => standing' \cap R!About(i.by) = {}
        /\ lost' \subseteq lost /\ lost' \subseteq new
    BY <1>6, <1>10, <2>2 DEF CallOk
  <2> HIDE DEF i, n
  <2>6. CallOk(n, standing', lost', clean')
    BY <2>2, <2>3, <2>4, <2>5, WatchedOk
  <2> QED
    BY <2>6 DEF n
<1>13. \A d \in Call : calls[d].stage \in {"forgetting", "reading"} =>
         calls'[d].stage = calls[d].stage /\ calls'[d].by = calls[d].by
  <2> SUFFICES ASSUME NEW d \in Call, calls[d].stage \in {"forgetting", "reading"}
               PROVE  calls'[d].stage = calls[d].stage /\ calls'[d].by = calls[d].by
    OBVIOUS
  <2>1. cs[d] = calls[d] /\ cs[d] # R!Idle
    BY <1>1, <1>7, IdleIsNone
  <2> QED
    BY <1>9, <2>1
<1>14. GoneInv'
  <2>1. calls'[c].stage = "forgetting" /\ calls'[c].by = u
    BY <1>4, <1>7, <1>9
  <2>2. \A v : Forgotten(v, calls') => Forgotten(v, calls) /\ v # u
    BY <1>13, <2>1 DEF Forgotten
  <2>3. clean' \subseteq clean \cup {u} /\ clean \subseteq gone
    BY <1>1 DEF RelInv, GoneInv
  <2> QED
    BY <1>1, <1>9, <1>10, <2>2, <2>3 DEF GoneInv, RelInv
<1>15. RelInv'
  BY <1>9, <1>11, <1>12, <1>14 DEF RelInv
<1>16. R!BlockForbidsFollow
  BY <1>13, NobodyFollows
<1> QED
  BY <1>15, <1>16

(* Memory forgets who is gone.                                             *)
LEMMA ForgetsStep ==
  ASSUME R!RelationAssumption, RelInv, NEW c \in Call, R!Forgets(c)
  PROVE  RelInv' /\ R!BlockForbidsFollow
<1> DEFINE u == calls[c].by
<1>1. /\ calls[c].stage = "forgetting" /\ memory' = memory \ R!About(u)
      /\ calls' = [calls EXCEPT ![c] = R!Idle]
      /\ UNCHANGED <<rows, gone, standing, lost, clean>>
  BY DEF R!Forgets, R!Is
<1>2. CallOk(calls[c], standing, lost, clean)
  BY <1>1, IdleIsNone DEF RelInv
<1>3. standing \cap R!About(u) = {}
  BY <1>1, <1>2 DEF CallOk
<1>4. lost \subseteq standing /\ standing \ lost \subseteq memory'
  BY <1>1, <1>3 DEF RelInv, LinksInv
<1>5. ASSUME NEW v \in clean, Forgotten(v, calls')
      PROVE  R!About(v) \cap memory' = {}
  <2>1. CASE v = u
    BY <1>1, <2>1
  <2>2. CASE v # u
    <3>1. Forgotten(v, calls)
      BY <1>1, <1>5, <2>2 DEF Forgotten, RelInv
    <3> QED
      BY <1>1, <3>1 DEF RelInv, GoneInv
  <2> QED
    BY <2>1, <2>2
<1>6. RelInv'
  BY <1>1, <1>4, <1>5, OneMoves
<1>7. \A d \in Call : calls[d].stage = "reading" => calls'[d].stage # "writing"
  BY <1>1, IdleIsNone DEF RelInv
<1> QED
  BY <1>6, <1>7, NobodyFollows

(* The process starts again: memory has lost every block that stands.      *)
LEMMA RestartsStep ==
  ASSUME RelInv, R!Restarts
  PROVE  RelInv' /\ R!BlockForbidsFollow
<1>1. /\ memory' = {} /\ calls' = [c \in Call |-> R!Idle] /\ lost' = standing
      /\ UNCHANGED <<rows, gone, standing, clean>>
  BY DEF R!Restarts
<1>2. LinksInv'
  BY <1>1 DEF RelInv, LinksInv
<1>3. GoneInv'
  BY <1>1 DEF RelInv, GoneInv
<1>4. RelInv'
  BY <1>1, <1>2, <1>3 DEF RelInv
<1>5. \A d \in Call : calls'[d].stage # "writing"
  BY <1>1, IdleIsNone
<1> QED
  BY <1>4, <1>5, NobodyFollows

LEMMA RelStarts == R!Init => RelInv
BY DEF R!Init, RelInv, LinksInv, GoneInv

LEMMA RelStep ==
  ASSUME R!RelationAssumption, RelInv, [R!Next]_(R!vars)
  PROVE  RelInv' /\ [R!BlockForbidsFollow]_(R!vars)
<1>1. CASE UNCHANGED R!vars
  BY <1>1 DEF R!vars, RelInv, LinksInv, GoneInv, Forgotten
<1>2. CASE R!Restarts
  BY <1>2, RestartsStep
<1>3. CASE \E c \in Call :
         \/ R!ReadEnds(c) \/ R!ReadFails(c) \/ R!WriteEnds(c) \/ R!WriteFails(c)
         \/ R!DeleteCommits(c) \/ R!Forgets(c)
         \/ \E op \in OpOf[c], a, b \in User : R!Begins(c, op, a, b)
  BY <1>3, ReadsStep, WriteEndsStep, WriteFailsStep, DeleteCommitsStep, ForgetsStep,
     BeginsStep
<1> QED
  BY <1>1, <1>2, <1>3 DEF R!Next

(* The inductive invariant holds whatever users, calls and restarts there  *)
(* are.                                                                    *)
LEMMA Related == R!RelationAssumption => (R!Spec => []RelInv)
<1>1. ASSUME R!RelationAssumption PROVE R!Spec => []RelInv
  <2>1. RelInv /\ [R!Next]_(R!vars) => RelInv'
    BY <1>1, RelStep
  <2> QED
    BY <2>1, RelStarts, PTL DEF R!Spec
<1> QED
  BY <1>1

(* Nobody comes to follow across a block that stood when the call began    *)
(* and stands still: setFollowState asks memory and both tables, in both   *)
(* directions, and what one of them lost the other has, unless the call    *)
(* could not read the tables.                                              *)
THEOREM BlockForbidsFollowHolds ==
  ASSUME R!RelationAssumption
  PROVE  R!Spec => [][R!BlockForbidsFollow]_(R!vars)
<1>1. RelInv /\ [R!Next]_(R!vars) => [R!BlockForbidsFollow]_(R!vars)
  BY RelStep
<1>2. R!Spec => []RelInv
  BY Related
<1> QED
  BY <1>1, <1>2, PTL DEF R!Spec

(* Of a deleted user whom no call named on the way nothing is left, in     *)
(* memory or in the tables, once removeUserRelationshipState has run,      *)
(* whatever reads were under way when the account was deleted.             *)
THEOREM GoneLeaveNoTraceHolds ==
  ASSUME R!RelationAssumption
  PROVE  R!Spec => []R!GoneLeaveNoTrace
<1>1. RelInv => R!GoneLeaveNoTrace
  BY DEF RelInv, GoneInv, Forgotten, R!GoneLeaveNoTrace, R!Is
<1>2. R!Spec => []RelInv
  BY Related
<1> QED
  BY <1>1, <1>2, PTL

-----------------------------------------------------------------------------
(* The community of a coin (Community).                                    *)
CONSTANTS Anonymous, Capacity, Limit, MaxRequests
VARIABLES posts, made, requests, commented, liked, voted, admitted, deleting,
          forgotten, late, blocked, walk

C == INSTANCE Community WITH Nobody <- Anonymous

Authors == User \cup {Anonymous}
Entry   == [id : Nat, author : Authors]

(* Who is forgotten is a user, and posts are records of their authors.     *)
NamedInv ==
  /\ posts \in Seq(Entry) /\ made \in Nat /\ forgotten \subseteq User
  /\ C!GoneAreNotNamed

(* Of a list that is kept nothing is new.                                  *)
LEMMA KeptFacts ==
  ASSUME Capacity \in Nat, NEW list \in Seq(Entry)
  PROVE  /\ C!Kept(list) \in Seq(Entry)
         /\ \A i \in DOMAIN C!Kept(list) : \E j \in DOMAIN list : C!Kept(list)[i] = list[j]
<1> DEFINE n == C!Min({Capacity, Len(list)})
<1>1. n \in Nat /\ n <= Len(list)
  <2>1. \E x \in {Capacity, Len(list)} : \A y \in {Capacity, Len(list)} : x <= y
    OBVIOUS
  <2> QED
    BY <2>1 DEF C!Min
<1>2. C!Kept(list) = SubSeq(list, 1, n)
  BY DEF C!Kept
<1> HIDE DEF n
<1>3. /\ SubSeq(list, 1, n) \in Seq(Entry) /\ Len(SubSeq(list, 1, n)) = n
      /\ \A i \in 1..n : SubSeq(list, 1, n)[i] = list[i]
  BY <1>1
<1> DEFINE kept == SubSeq(list, 1, n)
<1> HIDE DEF kept
<1>4. kept \in Seq(Entry) /\ DOMAIN kept = 1..n /\ \A i \in 1..n : kept[i] = list[i]
  BY <1>1, <1>3 DEF kept
<1>5. 1..n \subseteq DOMAIN list
  BY <1>1
<1>6. \A i \in DOMAIN kept : \E j \in DOMAIN list : kept[i] = list[j]
  BY <1>4, <1>5
<1> QED
  BY <1>2, <1>4, <1>6 DEF kept

LEMMA PostsStep ==
  ASSUME C!CommunityAssumption, NamedInv, NEW u \in User, C!Posts(u)
  PROVE  NamedInv'
<1> DEFINE p == [id |-> made + 1, author |-> u]  list == <<p>> \o posts
<1>1. /\ posts' = C!Kept(list) /\ made' = made + 1
      /\ forgotten' = forgotten /\ late' = late \cup ({u} \cap forgotten)
      /\ UNCHANGED <<commented, liked, voted>>
  BY DEF C!Posts, C!Handles
<1>2. p \in Entry /\ posts \in Seq(Entry)
  BY DEF NamedInv, Entry, Authors
<1> HIDE DEF p
<1>3. list \in Seq(Entry) /\ Len(list) = Len(posts) + 1 /\ list[1] = p
      /\ \A i \in 2..Len(list) : list[i] = posts[i - 1] /\ i - 1 \in 1..Len(posts)
  BY <1>2
<1> HIDE DEF list
<1>4. /\ posts' \in Seq(Entry)
      /\ \A i \in DOMAIN posts' : \E j \in DOMAIN list : posts'[i] = list[j]
  BY <1>1, <1>3, KeptFacts DEF C!CommunityAssumption
<1>5. ASSUME NEW v \in forgotten' \ late', NEW i \in DOMAIN posts'
      PROVE  posts'[i].author # v
  <2>1. v # u /\ v \in forgotten \ late
    BY <1>1, <1>5
  <2>2. PICK j \in 1..Len(list) : posts'[i] = list[j]
    BY <1>3, <1>4
  <2>3. CASE j = 1
    BY <1>3, <2>1, <2>2, <2>3 DEF p
  <2>4. CASE j # 1
    <3>1. list[j] = posts[j - 1] /\ j - 1 \in DOMAIN posts
      BY <1>2, <1>3, <2>4
    <3> QED
      BY <2>1, <2>2, <3>1 DEF NamedInv, C!GoneAreNotNamed, C!ToSet
  <2> QED
    BY <2>3, <2>4
<1> QED
  BY <1>1, <1>4, <1>5 DEF NamedInv, C!GoneAreNotNamed, C!ToSet

(* A comment, a like or a vote is of who is not forgotten, or late.        *)
LEMMA MarksStep ==
  ASSUME NamedInv, NEW u \in User, NEW id,
         C!Likes(u, id) \/ C!Comments(u, id) \/ C!Votes(u)
  PROVE  NamedInv'
<1>1. /\ UNCHANGED <<posts, made, forgotten>> /\ late' = late \cup ({u} \cap forgotten)
      /\ commented' \subseteq commented \cup {<<id, u>>}
      /\ liked' \subseteq liked \cup {<<id, u>>} /\ voted' \subseteq voted \cup {u}
  BY DEF C!Likes, C!Comments, C!Votes, C!Handles
<1>2. \A v \in forgotten' \ late' : v # u /\ v \in forgotten \ late
  BY <1>1
<1> QED
  BY <1>1, <1>2 DEF NamedInv, C!GoneAreNotNamed, C!ToSet

LEMMA ForgetsUserStep ==
  ASSUME C!CommunityAssumption, NamedInv, NEW u \in User, C!Forgets(u)
  PROVE  NamedInv'
<1>1. /\ forgotten' = forgotten \cup {u} /\ late' = late /\ made' = made
      /\ posts' = [i \in DOMAIN posts |-> [posts[i] EXCEPT !.author = C!Without(@, u)]]
      /\ commented' = {<<m[1], C!Without(m[2], u)>> : m \in commented}
      /\ liked' = {m \in liked : m[2] # u} /\ voted' = voted \ {u}
  BY DEF C!Forgets
<1>2. \A a \in Authors : C!Without(a, u) \in Authors \ {u}
  BY DEF C!Without, Authors, C!CommunityAssumption
<1>3. \A v \in User : \A a : C!Without(a, u) = v => a = v /\ v # u
  BY DEF C!Without, C!CommunityAssumption
<1>4. posts \in Seq(Entry) /\ forgotten' \subseteq User
  BY <1>1 DEF NamedInv
<1>5. \A i \in DOMAIN posts :
        posts'[i] \in Entry /\ posts'[i].author = C!Without(posts[i].author, u)
  <2> SUFFICES ASSUME NEW i \in DOMAIN posts
               PROVE  posts'[i] \in Entry /\ posts'[i].author = C!Without(posts[i].author, u)
    OBVIOUS
  <2>1. posts[i] \in Entry
    BY <1>4
  <2>2. posts'[i] = [posts[i] EXCEPT !.author = C!Without(posts[i].author, u)]
    BY <1>1
  <2> QED
    BY <1>2, <2>1, <2>2 DEF Entry
<1>6. posts' \in Seq(Entry) /\ DOMAIN posts' = DOMAIN posts
  <2>1. DOMAIN posts = 1..Len(posts) /\ Len(posts) \in Nat
    BY <1>4
  <2>2. DOMAIN posts' = DOMAIN posts /\ posts' = [i \in DOMAIN posts |-> posts'[i]]
    BY <1>1
  <2>3. posts' \in [1..Len(posts) -> Entry]
    BY <1>5, <2>1, <2>2
  <2> QED
    BY <2>1, <2>2, <2>3
<1>7. ASSUME NEW v \in forgotten' \ late'
      PROVE  /\ \A i \in DOMAIN posts' : posts'[i].author # v
             /\ \A m \in commented' \cup liked' : m[2] # v
             /\ v \notin voted'
  <2>1. v \in User /\ (v = u \/ v \in forgotten \ late)
    BY <1>1, <1>4
  <2>2. v # u => /\ \A i \in DOMAIN posts : posts[i].author # v
                 /\ \A m \in commented \cup liked : m[2] # v
                 /\ v \notin voted
    BY <2>1 DEF NamedInv, C!GoneAreNotNamed, C!ToSet
  <2>3. \A i \in DOMAIN posts' : posts'[i].author # v
    BY <1>3, <1>5, <1>6, <2>1, <2>2
  <2>4. \A m \in commented' : m[2] # v
    BY <1>1, <1>3, <2>1, <2>2
  <2> QED
    BY <1>1, <2>2, <2>3, <2>4
<1>8. C!GoneAreNotNamed'
  BY <1>7 DEF C!GoneAreNotNamed, C!ToSet
<1> QED
  BY <1>1, <1>4, <1>6, <1>8 DEF NamedInv

LEMMA NamedStep ==
  ASSUME C!CommunityAssumption, NamedInv, [C!Next]_(C!vars)
  PROVE  NamedInv'
<1>1. ASSUME UNCHANGED <<posts, made, forgotten, late, commented, liked, voted>>
      PROVE  NamedInv'
  BY <1>1 DEF NamedInv, C!GoneAreNotNamed, C!ToSet
<1>2. CASE \E u \in User : C!Admits(u) \/ C!DeleteCommits(u) \/ C!Blocks(u)
  BY <1>1, <1>2 DEF C!Admits, C!DeleteCommits, C!Blocks, C!data
<1>3. CASE C!Turns \/ (\E oldest \in BOOLEAN : C!Begins(oldest)) \/ UNCHANGED (C!vars)
  BY <1>1, <1>3 DEF C!Turns, C!Begins, C!data, C!vars
<1>4. CASE \E u \in User : \/ C!Posts(u) \/ C!Forgets(u) \/ C!Votes(u)
                           \/ \E id \in 1..MaxRequests : C!Likes(u, id) \/ C!Comments(u, id)
  BY <1>4, PostsStep, ForgetsUserStep, MarksStep
<1> QED
  BY <1>2, <1>3, <1>4 DEF C!Next

(* No post, comment, like or vote names a user whose deletion is done, but *)
(* for requests that were authenticated before and handled after it, for   *)
(* any number of users and posts (anonymizeCommunityDataForDeletedUser).   *)
THEOREM GoneAreNotNamedHolds ==
  ASSUME C!CommunityAssumption
  PROVE  C!Spec => []C!GoneAreNotNamed
<1>1. C!Init => NamedInv
  BY DEF C!Init, NamedInv, C!GoneAreNotNamed, C!ToSet
<1>2. NamedInv /\ [C!Next]_(C!vars) => NamedInv'
  BY NamedStep
<1>3. NamedInv => C!GoneAreNotNamed
  BY DEF NamedInv
<1> QED
  BY <1>1, <1>2, <1>3, PTL DEF C!Spec

(* The walk through the posts.  Ahead: the one comes before the other.     *)
Walks == [oldest : BOOLEAN, begun : BOOLEAN, cursor : Nat, newest : Nat,
          seen : SUBSET Nat, repeated : SUBSET Nat, ends : SUBSET Nat,
          veiled : SUBSET Nat, astray : BOOLEAN]
Ahead(w, d, id) == IF w.oldest THEN d < id ELSE d > id
Accounted(w)    == w.seen \cup w.ends \cup w.veiled

(* A post whose author is blocked counts as hidden; what was seen is ahead *)
(* of the cursor, and what is not behind the cursor is accounted for.      *)
WalkSound ==
  /\ \A i \in DOMAIN posts :
       posts[i].id <= walk.newest /\ posts[i].author \in blocked
         => posts[i].id \in walk.veiled
  /\ ~walk.astray =>
       /\ walk.repeated = {}
       /\ walk.cursor # 0 => \A d \in walk.seen : Ahead(walk, d, walk.cursor)
       /\ walk.begun =>
            \A i \in DOMAIN posts :
              /\ posts[i].id <= walk.newest
              /\ walk.cursor # 0 => posts[i].id = walk.cursor
                                    \/ Ahead(walk, posts[i].id, walk.cursor)
              => posts[i].id \in Accounted(walk)

PostsTyped ==
  /\ posts \in Seq(Entry) /\ made \in Nat /\ blocked \subseteq User
  /\ \A i \in DOMAIN posts : posts[i].id \in 1..made

WalkInv ==
  /\ PostsTyped /\ walk \in Walks /\ walk.newest <= made
  /\ ~walk.begun => walk = C!NoWalk
  /\ WalkSound

LEMMA CommunitySizes == \A S : C!Cardinality(S) = Cardinality(S)
BY DEF C!Cardinality, C!IsFiniteSet, Cardinality, IsFiniteSet

(* Of finitely many ids one is the least.                                  *)
LEMMA LeastNumber ==
  ASSUME NEW T, T \subseteq Nat, T # {}
  PROVE  \E n \in T : \A m \in T : n <= m
<1> DEFINE Less == OpToRel(<, Nat)
<1>1. IsWellFoundedOn(Less, Nat)
  BY NatLessThanWellFounded
<1>2. \A m, n \in Nat : m < n => <<m, n>> \in Less
  BY DEF OpToRel
<1> HIDE DEF Less
<1>3. PICK n \in T : \A m \in T : ~(<<m, n>> \in Less)
  BY <1>1, WFMin
<1>4. n \in Nat /\ \A m \in T : m \in Nat /\ ~(m < n)
  BY <1>2, <1>3
<1> QED
  BY <1>3, <1>4

LEMMA ShownFacts ==
  ASSUME PostsTyped
  PROVE  /\ C!Shown \subseteq 1..made /\ IsFiniteSet(C!Shown)
         /\ \A i \in DOMAIN posts : posts[i].id \notin C!Shown => posts[i].author \in blocked
<1>1. \A id \in C!Shown : \E i \in DOMAIN posts : id = posts[i].id
  BY DEF C!Shown, C!ToSet
<1>2. C!Shown \subseteq 1..made
  BY <1>1 DEF PostsTyped
<1>3. IsFiniteSet(1..made)
  BY FS_Interval DEF PostsTyped
<1>4. \A i \in DOMAIN posts : posts[i].author \notin blocked => posts[i].id \in C!Shown
  BY DEF C!Shown, C!ToSet
<1> QED
  BY <1>2, <1>3, <1>4, FS_Subset

(* Places are in order.                                                    *)
LEMMA PlaceFacts ==
  ASSUME PostsTyped, NEW w \in Walks
  PROVE  /\ \A d \in C!Shown : C!Place(w, d) \in Nat
         /\ \A d, e \in C!Shown : C!Place(w, d) < C!Place(w, e) <=> Ahead(w, d, e)
<1>1. C!Shown \subseteq Nat /\ IsFiniteSet(C!Shown)
  BY ShownFacts DEF PostsTyped
<1>2. w.oldest \in BOOLEAN
  BY DEF Walks
<1>3. \A d : C!Before(w, d) = {e \in C!Shown : Ahead(w, e, d)}
  BY DEF C!Before, Ahead
<1>4. \A d : C!Place(w, d) = Cardinality(C!Before(w, d))
  BY CommunitySizes DEF C!Place
<1>5. \A d : IsFiniteSet(C!Before(w, d))
  <2> SUFFICES ASSUME NEW d
               PROVE  IsFiniteSet(C!Before(w, d))
    OBVIOUS
  <2>1. C!Before(w, d) \subseteq C!Shown
    BY <1>3
  <2> QED
    BY <1>1, <2>1, FS_Subset
<1>6. \A d : C!Place(w, d) \in Nat
  BY <1>4, <1>5, FS_CardinalityType
<1>7. ASSUME NEW d \in C!Shown, NEW e \in C!Shown, Ahead(w, d, e)
      PROVE  C!Place(w, d) < C!Place(w, e)
  <2>1. C!Before(w, d) \subseteq C!Before(w, e)
    <3> SUFFICES ASSUME NEW x \in C!Shown, Ahead(w, x, d)
                 PROVE  Ahead(w, x, e)
      BY <1>3
    <3> QED
      BY <1>1, <1>2, <1>7 DEF Ahead
  <2>2. d \in C!Before(w, e) /\ d \notin C!Before(w, d)
    BY <1>1, <1>2, <1>3, <1>7 DEF Ahead
  <2>3. C!Before(w, d) # C!Before(w, e)
    BY <2>2
  <2>4. Cardinality(C!Before(w, d)) < Cardinality(C!Before(w, e))
    BY <1>5, <2>1, <2>3, FS_Subset, FS_CardinalityType
  <2> QED
    BY <1>4, <2>4
<1>8. ASSUME NEW d \in C!Shown, NEW e \in C!Shown, C!Place(w, d) < C!Place(w, e)
      PROVE  Ahead(w, d, e)
  <2>1. d = e \/ Ahead(w, d, e) \/ Ahead(w, e, d)
    BY <1>1, <1>2 DEF Ahead
  <2>2. d # e
    BY <1>6, <1>8
  <2>3. ~Ahead(w, e, d)
    BY <1>6, <1>7, <1>8
  <2> QED
    BY <2>1, <2>2, <2>3
<1> QED
  BY <1>6, <1>7, <1>8

(* What a page is: it and the post after it are all that is shown from     *)
(* behind the cursor up to the next one.                                   *)
LEMMA PageFacts ==
  ASSUME C!CommunityAssumption, PostsTyped, NEW w \in Walks
  PROVE  /\ C!Page(w) \in Walks
         /\ \E page, next \in SUBSET C!Shown :
              /\ C!Page(w) = [w EXCEPT !.cursor = IF next = {} THEN 0
                                                  ELSE CHOOSE id \in next : TRUE,
                                !.seen = w.seen \cup page, !.ends = w.ends \cup next,
                                !.repeated = w.repeated \cup (w.seen \cap page),
                                !.astray = w.astray \/ (w.cursor # 0 /\ C!Offset(w) = 0)]
              /\ w.cursor \in C!Shown => \A d \in page \cup next : Ahead(w, w.cursor, d)
              /\ \A d \in page, e \in next : Ahead(w, d, e)
              /\ \A d, e \in next : d = e
              /\ \A d \in C!Shown :
                   /\ w.cursor \in C!Shown => Ahead(w, w.cursor, d)
                   /\ \A e \in next : d = e \/ Ahead(w, d, e)
                   => d \in page \cup next
         /\ w.cursor # 0 /\ C!Offset(w) # 0 => w.cursor \in C!Shown
<1> DEFINE place(d) == C!Place(w, d)
           from  == C!Offset(w)
           rest  == {id \in C!Shown : place(id) >= from}
           page  == {id \in rest : place(id) < from + Limit}
           after == rest \ page
           next  == {id \in after : C!Before(w, id) \cap after = {}}
<1>1. C!Shown \subseteq Nat /\ Limit \in Nat /\ w.cursor \in Nat
  BY ShownFacts DEF PostsTyped, C!CommunityAssumption, Walks
<1>2. /\ \A d \in C!Shown : place(d) \in Nat
      /\ \A d, e \in C!Shown : place(d) < place(e) <=> Ahead(w, d, e)
  BY PlaceFacts
<1>3. from = IF w.cursor \in C!Shown THEN place(w.cursor) + 1 ELSE 0
  BY DEF C!Offset
<1>4. C!Page(w) = [w EXCEPT !.cursor = IF next = {} THEN 0 ELSE CHOOSE id \in next : TRUE,
                     !.seen = w.seen \cup page, !.ends = w.ends \cup next,
                     !.repeated = w.repeated \cup (w.seen \cap page),
                     !.astray = w.astray \/ (w.cursor # 0 /\ from = 0)]
  BY DEF C!Page, Walks
<1>5. \A d : C!Before(w, d) = {e \in C!Shown : Ahead(w, e, d)}
  BY DEF C!Before, Ahead
<1> HIDE DEF place, from
<1>6. from \in Nat
  BY <1>2, <1>3
<1>7. \A d \in C!Shown : w.cursor \in C!Shown => (d \in rest <=> Ahead(w, w.cursor, d))
  <2> SUFFICES ASSUME NEW d \in C!Shown, w.cursor \in C!Shown
               PROVE  d \in rest <=> Ahead(w, w.cursor, d)
    OBVIOUS
  <2>1. place(d) \in Nat /\ place(w.cursor) \in Nat /\ from = place(w.cursor) + 1
    BY <1>2, <1>3
  <2>2. place(d) >= from <=> place(w.cursor) < place(d)
    BY <2>1
  <2> QED
    BY <1>2, <2>2
<1>8. \A d \in C!Shown : w.cursor \notin C!Shown => d \in rest
  BY <1>2, <1>3
<1>9. \A d \in page, e \in after : Ahead(w, d, e)
  <2> SUFFICES ASSUME NEW d \in page, NEW e \in after
               PROVE  Ahead(w, d, e)
    OBVIOUS
  <2>1. d \in C!Shown /\ e \in C!Shown /\ place(d) < from + Limit /\ ~(place(e) < from + Limit)
    OBVIOUS
  <2>2. place(d) < place(e)
    BY <1>1, <1>2, <1>6, <2>1
  <2> QED
    BY <1>2, <2>1, <2>2
<1>10. after # {} => next # {}
  <2> SUFFICES ASSUME after # {}
               PROVE  next # {}
    OBVIOUS
  <2> DEFINE T == {place(d) : d \in after}
  <2>1. T \subseteq Nat /\ T # {}
    BY <1>2
  <2> HIDE DEF T
  <2>2. PICK n \in T : \A m \in T : n <= m
    BY <2>1, LeastNumber
  <2>3. PICK d \in after : n = place(d)
    BY DEF T
  <2>4. \A e \in after : place(d) <= place(e) /\ e \in C!Shown
    BY <2>2, <2>3 DEF T
  <2>5. \A e \in after : ~Ahead(w, e, d)
    BY <1>2, <2>3, <2>4
  <2>6. d \in next
    BY <1>5, <2>3, <2>5
  <2> QED
    BY <2>6
<1>11. \A e \in next : \A d \in after : d = e \/ Ahead(w, e, d)
  <2> SUFFICES ASSUME NEW e \in next, NEW d \in after
               PROVE  d = e \/ Ahead(w, e, d)
    OBVIOUS
  <2>1. d \in Nat /\ e \in Nat /\ ~Ahead(w, d, e)
    BY <1>1, <1>5
  <2> QED
    BY <2>1 DEF Ahead, Walks
<1>12. \A d, e \in C!Shown : ~(Ahead(w, d, e) /\ Ahead(w, e, d)) /\ ~Ahead(w, d, d)
  BY <1>1 DEF Ahead
<1>13. ASSUME NEW d \in C!Shown, w.cursor \in C!Shown => Ahead(w, w.cursor, d),
              \A e \in next : d = e \/ Ahead(w, d, e)
       PROVE  d \in page \cup next
  <2>1. d \in rest
    BY <1>7, <1>8, <1>13
  <2>2. CASE d \in after
    <3>1. PICK e \in next : TRUE
      BY <1>10, <2>2
    <3>2. e \in C!Shown /\ (d = e \/ Ahead(w, d, e)) /\ (d = e \/ Ahead(w, e, d))
      BY <1>11, <1>13, <2>2
    <3>3. d = e
      BY <1>12, <3>2
    <3> QED
      BY <3>1, <3>3
  <2> QED
    BY <2>1, <2>2
<1>14. /\ page \in SUBSET C!Shown /\ next \in SUBSET C!Shown
       /\ w.cursor \in C!Shown => \A d \in page \cup next : Ahead(w, w.cursor, d)
       /\ \A d \in page, e \in next : Ahead(w, d, e)
  BY <1>7, <1>9
<1>17. \A d, e \in next : d = e
  BY <1>11, <1>12
<1>15. w.cursor # 0 /\ from # 0 => w.cursor \in C!Shown
  BY <1>3
<1> HIDE DEF page, next, rest, after
<1>16. C!Page(w) \in Walks
  <2>1. (IF next = {} THEN 0 ELSE CHOOSE id \in next : TRUE) \in Nat
    BY <1>1, <1>14
  <2>2. page \subseteq Nat /\ next \subseteq Nat
    BY <1>1, <1>14
  <2> DEFINE to == IF next = {} THEN 0 ELSE CHOOSE id \in next : TRUE
             offRoad == w.astray \/ (w.cursor # 0 /\ from = 0)
  <2>3. to \in Nat /\ offRoad \in BOOLEAN
    BY <2>1 DEF Walks
  <2>4. C!Page(w) = [w EXCEPT !.cursor = to, !.seen = w.seen \cup page,
                       !.ends = w.ends \cup next,
                       !.repeated = w.repeated \cup (w.seen \cap page), !.astray = offRoad]
    BY <1>4
  <2> HIDE DEF page, next, to, offRoad
  <2> QED
    BY <2>2, <2>3, <2>4 DEF Walks
<1> QED
  BY <1>4, <1>13, <1>14, <1>15, <1>16, <1>17 DEF from

(* A page keeps a walk sound that has begun.                               *)
LEMMA PageKeeps ==
  ASSUME C!CommunityAssumption, PostsTyped, NEW w \in Walks, UNCHANGED <<posts, blocked>>,
         w.begun, walk' = C!Page(w),
         \A i \in DOMAIN posts :
           posts[i].id <= w.newest /\ posts[i].author \in blocked => posts[i].id \in w.veiled,
         ~w.astray =>
           /\ w.repeated = {}
           /\ w.cursor = 0 => w.seen = {}
           /\ w.cursor # 0 =>
                /\ \A d \in w.seen : Ahead(w, d, w.cursor)
                /\ \A i \in DOMAIN posts :
                     /\ posts[i].id <= w.newest
                     /\ posts[i].id = w.cursor \/ Ahead(w, posts[i].id, w.cursor)
                     => posts[i].id \in Accounted(w)
  PROVE  /\ walk' \in Walks /\ walk'.begun /\ walk'.newest = w.newest
         /\ WalkSound'
<1>1. PICK page, next \in SUBSET C!Shown :
        /\ C!Page(w) = [w EXCEPT !.cursor = IF next = {} THEN 0 ELSE CHOOSE id \in next : TRUE,
                          !.seen = w.seen \cup page, !.ends = w.ends \cup next,
                          !.repeated = w.repeated \cup (w.seen \cap page),
                          !.astray = w.astray \/ (w.cursor # 0 /\ C!Offset(w) = 0)]
        /\ w.cursor \in C!Shown => \A d \in page \cup next : Ahead(w, w.cursor, d)
        /\ \A d \in page, e \in next : Ahead(w, d, e)
        /\ \A d, e \in next : d = e
        /\ \A d \in C!Shown :
             /\ w.cursor \in C!Shown => Ahead(w, w.cursor, d)
             /\ \A e \in next : d = e \/ Ahead(w, d, e)
             => d \in page \cup next
  BY PageFacts
<1>2. walk' \in Walks /\ (w.cursor # 0 /\ C!Offset(w) # 0 => w.cursor \in C!Shown)
  BY PageFacts
<1>3. /\ walk'.oldest = w.oldest /\ walk'.begun = w.begun /\ walk'.newest = w.newest
      /\ walk'.veiled = w.veiled
      /\ walk'.cursor = (IF next = {} THEN 0 ELSE CHOOSE id \in next : TRUE)
      /\ walk'.seen = w.seen \cup page /\ walk'.ends = w.ends \cup next
      /\ walk'.repeated = w.repeated \cup (w.seen \cap page)
      /\ walk'.astray = (w.astray \/ (w.cursor # 0 /\ C!Offset(w) = 0))
  BY <1>1 DEF Walks
<1>4. \A d, e : Ahead(walk', d, e) = Ahead(w, d, e)
  BY <1>3 DEF Ahead
<1>5. C!Shown \subseteq Nat /\ 0 \notin C!Shown /\ w.cursor \in Nat /\ w.oldest \in BOOLEAN
  BY ShownFacts DEF PostsTyped, Walks
<1>6. \A i \in DOMAIN posts : posts[i].id \notin C!Shown => posts[i].author \in blocked
  BY ShownFacts
<1>7. walk'.cursor # 0 => walk'.cursor \in next
  BY <1>3
<1>8. next # {} => walk'.cursor # 0
  BY <1>3, <1>5
<1>9. ASSUME ~walk'.astray
      PROVE  /\ walk'.repeated = {}
             /\ walk'.cursor # 0 => \A d \in walk'.seen : Ahead(walk', d, walk'.cursor)
             /\ \A i \in DOMAIN posts :
                  /\ posts[i].id <= walk'.newest
                  /\ walk'.cursor # 0 => posts[i].id = walk'.cursor
                                         \/ Ahead(walk', posts[i].id, walk'.cursor)
                  => posts[i].id \in Accounted(walk')
  <2>1. ~w.astray /\ (w.cursor # 0 => w.cursor \in C!Shown)
    BY <1>2, <1>3, <1>9
  <2>2. w.repeated = {} /\ (w.cursor = 0 => w.seen = {})
        /\ (w.cursor # 0 => \A d \in w.seen : Ahead(w, d, w.cursor))
    BY <2>1
  <2>3. w.cursor \in C!Shown => w.cursor # 0
    BY <1>5
  <2>4. \A d \in w.seen : d \in Nat
    BY DEF Walks
  <2>5. \A d \in w.seen : d \notin page
    BY <1>1, <1>5, <2>1, <2>2, <2>4 DEF Ahead
  <2>6. walk'.repeated = {}
    BY <1>3, <2>2, <2>5
  <2>7. ASSUME walk'.cursor # 0, NEW d \in walk'.seen
        PROVE  Ahead(w, d, walk'.cursor)
    <3>1. walk'.cursor \in next /\ walk'.cursor \in Nat
      BY <1>5, <1>7, <2>7
    <3>2. CASE d \in page
      BY <1>1, <3>1, <3>2
    <3>3. CASE d \in w.seen
      <4>1. w.cursor # 0 /\ Ahead(w, d, w.cursor)
        BY <2>2, <3>3
      <4>2. Ahead(w, w.cursor, walk'.cursor)
        BY <1>1, <2>1, <3>1, <4>1
      <4> QED
        BY <1>5, <2>4, <3>1, <3>3, <4>1, <4>2 DEF Ahead
    <3> QED
      BY <1>3, <2>7, <3>2, <3>3
  <2>8. ASSUME NEW i \in DOMAIN posts, posts[i].id <= w.newest,
               walk'.cursor # 0 => posts[i].id = walk'.cursor
                                   \/ Ahead(w, posts[i].id, walk'.cursor)
        PROVE  posts[i].id \in w.seen \cup page \cup w.ends \cup next \cup w.veiled
    <3> DEFINE d == posts[i].id
    <3>1. CASE d \notin C!Shown
      BY <1>6, <2>8, <3>1
    <3>2. CASE d \in C!Shown /\ w.cursor \in C!Shown /\ ~Ahead(w, w.cursor, d)
      <4>1. w.cursor # 0 /\ d \in Nat
        BY <2>3, <3>2, <1>5
      <4>2. d = w.cursor \/ Ahead(w, d, w.cursor)
        BY <1>5, <3>2, <4>1 DEF Ahead
      <4>3. d \in Accounted(w)
        BY <2>1, <2>8, <4>1, <4>2
      <4> QED
        BY <4>3 DEF Accounted
    <3>3. CASE d \in C!Shown /\ (w.cursor \in C!Shown => Ahead(w, w.cursor, d))
      <4>1. \A e \in next : d = e \/ Ahead(w, d, e)
        <5> SUFFICES ASSUME NEW e \in next
                     PROVE  d = e \/ Ahead(w, d, e)
          OBVIOUS
        <5>2. e = walk'.cursor
          BY <1>1, <1>7, <1>8
        <5>1. walk'.cursor # 0 /\ walk'.cursor \in next
          BY <1>7, <1>8
        <5> QED
          BY <2>8, <5>1, <5>2
      <4> QED
        BY <1>1, <3>3, <4>1
    <3> QED
      BY <3>1, <3>2, <3>3
  <2>9. Accounted(walk') = w.seen \cup page \cup w.ends \cup next \cup w.veiled
    BY <1>3 DEF Accounted
  <2> QED
    BY <1>3, <1>4, <2>6, <2>7, <2>8, <2>9
<1>10. \A i \in DOMAIN posts : posts[i].id <= walk'.newest /\ posts[i].author \in blocked
                                 => posts[i].id \in walk'.veiled
  BY <1>3
<1>11. WalkSound'
  BY <1>3, <1>9, <1>10 DEF WalkSound
<1> QED
  BY <1>2, <1>3, <1>11

LEMMA WalkPosts ==
  ASSUME C!CommunityAssumption, WalkInv, NEW u \in User, C!Posts(u)
  PROVE  WalkInv'
<1> DEFINE p == [id |-> made + 1, author |-> u]  list == <<p>> \o posts
<1>1. /\ posts' = C!Kept(list) /\ made' = made + 1 /\ UNCHANGED <<blocked, walk>>
  BY DEF C!Posts, C!Handles
<1>2. p \in Entry /\ posts \in Seq(Entry) /\ made \in Nat
  BY DEF WalkInv, PostsTyped, Entry, Authors
<1>3. p.id = made + 1
  OBVIOUS
<1> HIDE DEF p
<1>4. list \in Seq(Entry) /\ Len(list) = Len(posts) + 1 /\ list[1] = p
      /\ \A i \in 2..Len(list) : list[i] = posts[i - 1] /\ i - 1 \in 1..Len(posts)
  BY <1>2
<1> HIDE DEF list
<1>5. /\ posts' \in Seq(Entry)
      /\ \A i \in DOMAIN posts' : \E j \in DOMAIN list : posts'[i] = list[j]
  BY <1>1, <1>4, KeptFacts DEF C!CommunityAssumption
<1>6. ASSUME NEW i \in DOMAIN posts'
      PROVE  \/ posts'[i].id = made + 1
             \/ \E j \in DOMAIN posts : posts'[i] = posts[j]
  <2>1. PICK j \in 1..Len(list) : posts'[i] = list[j]
    BY <1>4, <1>5
  <2>2. CASE j = 1
    BY <1>3, <1>4, <2>1, <2>2
  <2>3. CASE j # 1
    <3>1. j \in 2..Len(list) /\ Len(list) \in Nat
      BY <1>2, <1>4, <2>3
    <3> QED
      BY <1>2, <1>4, <2>1, <3>1
  <2> QED
    BY <2>2, <2>3
<1>7. PostsTyped'
  <2>1. \A i \in DOMAIN posts : posts[i].id \in 1..made
    BY DEF WalkInv, PostsTyped
  <2>2. \A i \in DOMAIN posts' : posts'[i].id \in 1..made'
    BY <1>1, <1>2, <1>6, <2>1
  <2> QED
    BY <1>1, <1>2, <1>5, <2>2 DEF WalkInv, PostsTyped
<1>8. \A i \in DOMAIN posts' : posts'[i].id <= walk.newest
        => \E j \in DOMAIN posts : posts'[i] = posts[j]
  <2>1. walk.newest \in Nat /\ walk.newest <= made
    BY DEF WalkInv, Walks
  <2> QED
    BY <1>2, <1>6, <2>1
<1>9. WalkSound'
  <2>1. WalkSound
    BY DEF WalkInv
  <2>2. \A i \in DOMAIN posts' :
          posts'[i].id <= walk.newest /\ posts'[i].author \in blocked
            => posts'[i].id \in walk.veiled
    BY <1>8, <2>1 DEF WalkSound
  <2>3. ASSUME ~walk.astray, walk.begun, NEW i \in DOMAIN posts',
               posts'[i].id <= walk.newest,
               walk.cursor # 0 => posts'[i].id = walk.cursor
                                  \/ Ahead(walk, posts'[i].id, walk.cursor)
        PROVE  posts'[i].id \in Accounted(walk)
    <3>1. PICK j \in DOMAIN posts : posts'[i] = posts[j]
      BY <1>8, <2>3
    <3> QED
      BY <2>1, <2>3, <3>1 DEF WalkSound
  <2> QED
    BY <1>1, <2>1, <2>2, <2>3 DEF WalkSound, Ahead, Accounted
<1>10. walk.newest <= made'
  BY <1>1, <1>2 DEF WalkInv, Walks
<1> QED
  BY <1>1, <1>7, <1>9, <1>10 DEF WalkInv

(* A name that is taken off a post is nobody's whom the reader blocks.     *)
LEMMA WalkForgets ==
  ASSUME C!CommunityAssumption, WalkInv, NEW u \in User, C!Forgets(u)
  PROVE  WalkInv'
<1>1. /\ posts' = [i \in DOMAIN posts |-> [posts[i] EXCEPT !.author = C!Without(@, u)]]
      /\ UNCHANGED <<made, blocked, walk>>
  BY DEF C!Forgets
<1>2. posts \in Seq(Entry) /\ blocked \subseteq User /\ Anonymous \notin User
  BY DEF WalkInv, PostsTyped, C!CommunityAssumption
<1>3. \A i \in DOMAIN posts :
        /\ posts'[i] \in Entry /\ posts'[i].id = posts[i].id
        /\ posts'[i].author \in blocked => posts[i].author \in blocked
  <2> SUFFICES ASSUME NEW i \in DOMAIN posts
               PROVE  /\ posts'[i] \in Entry /\ posts'[i].id = posts[i].id
                      /\ posts'[i].author \in blocked => posts[i].author \in blocked
    OBVIOUS
  <2>1. posts[i] \in Entry
    BY <1>2
  <2>2. posts'[i] = [posts[i] EXCEPT !.author = C!Without(posts[i].author, u)]
    BY <1>1
  <2> QED
    BY <1>2, <2>1, <2>2 DEF Entry, Authors, C!Without
<1>4. posts' \in Seq(Entry) /\ DOMAIN posts' = DOMAIN posts
  <2>1. DOMAIN posts = 1..Len(posts) /\ Len(posts) \in Nat
    BY <1>2
  <2>2. DOMAIN posts' = DOMAIN posts /\ posts' = [i \in DOMAIN posts |-> posts'[i]]
    BY <1>1
  <2>3. posts' \in [1..Len(posts) -> Entry]
    BY <1>3, <2>1, <2>2
  <2> QED
    BY <2>1, <2>2, <2>3
<1>5. PostsTyped'
  BY <1>1, <1>3, <1>4 DEF WalkInv, PostsTyped
<1>6. WalkSound'
  BY <1>1, <1>3, <1>4 DEF WalkInv, WalkSound, Ahead, Accounted
<1> QED
  BY <1>1, <1>5, <1>6 DEF WalkInv

(* A new block veils the posts of its user.                                *)
LEMMA WalkBlocks ==
  ASSUME WalkInv, NEW u \in User, C!Blocks(u)
  PROVE  WalkInv'
<1>1. /\ UNCHANGED <<posts, made>>
      /\ blocked' = IF u \in blocked THEN blocked \ {u} ELSE blocked \cup {u}
  BY DEF C!Blocks, C!data
<1> DEFINE veils == {p.id : p \in {q \in C!ToSet(posts) : q.author = u}}
<1>2. walk' = [walk EXCEPT !.veiled = IF walk.begun THEN walk.veiled \cup veils ELSE walk.veiled]
  BY DEF C!Blocks
<1>3. \A i \in DOMAIN posts : posts[i].author = u => posts[i].id \in veils
  BY DEF C!ToSet
<1>4. veils \subseteq Nat
  <2>1. \A d \in veils : \E i \in DOMAIN posts : d = posts[i].id
    BY DEF C!ToSet
  <2>2. \A i \in DOMAIN posts : posts[i].id \in Nat
    BY DEF WalkInv, PostsTyped
  <2> HIDE DEF veils
  <2> QED
    BY <2>1, <2>2
<1> HIDE DEF veils
<1>5. PostsTyped'
  BY <1>1 DEF WalkInv, PostsTyped
<1>6. CASE ~walk.begun
  <2>1. walk' = walk
    BY <1>2, <1>6 DEF WalkInv, Walks
  <2>2. walk.newest = 0 /\ \A i \in DOMAIN posts : ~(posts[i].id <= 0)
    BY <1>6 DEF WalkInv, PostsTyped, C!NoWalk
  <2>3. WalkSound'
    BY <1>1, <1>6, <2>1, <2>2 DEF WalkInv, WalkSound, Ahead, Accounted
  <2> QED
    BY <1>1, <1>5, <2>1, <2>3 DEF WalkInv
<1>7. CASE walk.begun
  <2>1. walk' = [walk EXCEPT !.veiled = walk.veiled \cup veils]
    BY <1>2, <1>7
  <2>2. /\ walk' \in Walks /\ walk'.begun /\ walk'.veiled = walk.veiled \cup veils
        /\ walk'.oldest = walk.oldest /\ walk'.cursor = walk.cursor
        /\ walk'.newest = walk.newest /\ walk'.seen = walk.seen /\ walk'.ends = walk.ends
        /\ walk'.repeated = walk.repeated /\ walk'.astray = walk.astray
    BY <1>4, <1>7, <2>1 DEF WalkInv, Walks
  <2>3. WalkSound'
    <3>1. \A d, e : Ahead(walk', d, e) = Ahead(walk, d, e)
      BY <2>2 DEF Ahead
    <3>2. Accounted(walk) \subseteq Accounted(walk')
      BY <2>2 DEF Accounted
    <3> QED
      BY <1>1, <1>3, <1>7, <2>2, <3>1, <3>2 DEF WalkInv, WalkSound
  <2> QED
    BY <1>1, <1>5, <2>2, <2>3 DEF WalkInv
<1> QED
  BY <1>6, <1>7

LEMMA WalkTurns ==
  ASSUME C!CommunityAssumption, WalkInv,
         C!Turns \/ \E oldest \in BOOLEAN : C!Begins(oldest)
  PROVE  WalkInv'
<1>1. UNCHANGED <<posts, made, blocked>> /\ PostsTyped /\ PostsTyped'
  BY DEF C!Turns, C!Begins, C!data, WalkInv, PostsTyped
<1>2. CASE C!Turns
  <2>1. walk.begun /\ walk.cursor # 0 /\ walk' = C!Page(walk) /\ walk \in Walks
    BY <1>2 DEF C!Turns, WalkInv
  <2>2. /\ walk' \in Walks /\ walk'.begun /\ walk'.newest = walk.newest /\ WalkSound'
    BY <1>1, <2>1, PageKeeps DEF WalkInv, WalkSound
  <2> QED
    BY <1>1, <2>2 DEF WalkInv
<1>3. ASSUME NEW oldest \in BOOLEAN, C!Begins(oldest)
      PROVE  WalkInv'
  <2> DEFINE veils == {p.id : p \in {q \in C!ToSet(posts) : q.author \in blocked}}
             w == [C!NoWalk EXCEPT !.oldest = oldest, !.begun = TRUE, !.newest = made,
                     !.veiled = veils]
  <2>1. walk' = C!Page(w)
    BY <1>3 DEF C!Begins
  <2>2. \A i \in DOMAIN posts : posts[i].author \in blocked => posts[i].id \in veils
    BY DEF C!ToSet
  <2>3. veils \subseteq Nat
    <3>1. \A d \in veils : \E i \in DOMAIN posts : d = posts[i].id
      BY DEF C!ToSet
    <3>2. \A i \in DOMAIN posts : posts[i].id \in Nat
      BY <1>1 DEF PostsTyped
    <3> HIDE DEF veils
    <3> QED
      BY <3>1, <3>2
  <2> HIDE DEF veils
  <2>4. /\ w \in Walks /\ w.begun /\ w.newest = made /\ w.veiled = veils /\ w.seen = {}
        /\ w.repeated = {} /\ w.cursor = 0
    BY <1>1, <2>3 DEF C!NoWalk, Walks, PostsTyped
  <2> HIDE DEF w
  <2>5. /\ walk' \in Walks /\ walk'.begun /\ walk'.newest = w.newest /\ WalkSound'
    BY <1>1, <2>1, <2>2, <2>4, PageKeeps
  <2>6. made \in Nat /\ walk'.newest <= made'
    BY <1>1, <2>4, <2>5 DEF PostsTyped
  <2> QED
    BY <1>1, <2>5, <2>6 DEF WalkInv
<1> QED
  BY <1>2, <1>3

LEMMA WalkStep ==
  ASSUME C!CommunityAssumption, WalkInv, [C!Next]_(C!vars)
  PROVE  WalkInv'
<1>1. ASSUME UNCHANGED <<posts, made, blocked, walk>>
      PROVE  WalkInv'
  BY <1>1 DEF WalkInv, PostsTyped, WalkSound, Ahead, Accounted
<1>2. CASE \E u \in User : C!Admits(u) \/ C!DeleteCommits(u)
  BY <1>1, <1>2 DEF C!Admits, C!DeleteCommits, C!data
<1>3. CASE \E u \in User : \E id \in 1..MaxRequests : C!Likes(u, id) \/ C!Comments(u, id)
  BY <1>1, <1>3 DEF C!Likes, C!Comments, C!Handles
<1>4. CASE \E u \in User : C!Votes(u)
  BY <1>1, <1>4 DEF C!Votes, C!Handles
<1>5. CASE \E u \in User : C!Posts(u) \/ C!Forgets(u) \/ C!Blocks(u)
  BY <1>5, WalkPosts, WalkForgets, WalkBlocks
<1>6. CASE UNCHANGED C!vars
  BY <1>1, <1>6 DEF C!vars
<1> QED
  BY <1>2, <1>3, <1>4, <1>5, <1>6, WalkTurns DEF C!Next

(* A walk through the posts shows none twice while its cursor is found,    *)
(* and misses none that was there and not hidden all along but for the     *)
(* posts that its cursors name, for pages and lists of any size, whatever  *)
(* is posted, cut off, blocked and deleted meanwhile (listCoinCommunity).  *)
THEOREM WalkAddsUpHolds ==
  ASSUME C!CommunityAssumption
  PROVE  C!Spec => []C!WalkAddsUp
<1>1. C!Init => WalkInv
  <2> SUFFICES ASSUME C!Init
               PROVE  WalkInv
    OBVIOUS
  <2>1. posts = <<>> /\ made = 0 /\ blocked = {} /\ walk = C!NoWalk
    BY DEF C!Init
  <2>2. walk \in Walks /\ walk.newest = 0 /\ walk.cursor = 0 /\ walk.repeated = {}
        /\ ~walk.begun
    BY <2>1 DEF C!NoWalk, Walks
  <2>3. PostsTyped
    BY <2>1 DEF PostsTyped
  <2>4. WalkSound
    BY <2>1, <2>2 DEF WalkSound
  <2> QED
    BY <2>1, <2>2, <2>3, <2>4 DEF WalkInv
<1>2. WalkInv /\ [C!Next]_(C!vars) => WalkInv'
  BY WalkStep
<1>3. WalkInv => C!WalkAddsUp
  <2> SUFFICES ASSUME WalkInv
               PROVE  C!WalkAddsUp
    OBVIOUS
  <2>1. \A p \in C!ToSet(posts) : \E i \in DOMAIN posts : p = posts[i]
    BY DEF C!ToSet
  <2>2. ASSUME ~walk.astray, walk.begun, walk.cursor = 0, NEW p \in C!ToSet(posts),
               p.id <= walk.newest
        PROVE  p.id \in walk.seen \cup walk.ends \cup walk.veiled
    BY <2>1, <2>2 DEF WalkInv, WalkSound, Accounted
  <2>3. ~walk.astray => walk.repeated = {}
    BY DEF WalkInv, WalkSound
  <2> QED
    BY <2>2, <2>3 DEF C!WalkAddsUp
<1> QED
  BY <1>1, <1>2, <1>3, PTL DEF C!Spec
=============================================================================
