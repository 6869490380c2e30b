------------------------------- MODULE Accounts -------------------------------
(***************************************************************************)
(* Sign-up, social login and account deletion                              *)
(* (src/modules/auth/auth.service.ts): registerUser, findOrCreateSocial-   *)
(* User for Google and Apple, deleteUserAccount, as concurrent requests on *)
(* the User and AuthIdentity tables.                                       *)
(*                                                                         *)
(* Each await is a step.  The database checks its unique keys and foreign  *)
(* keys when a row is written; of a transaction that reads and then writes *)
(* the read is a step of its own (read committed).  A client is one        *)
(* person's device: it knows how it signs in, and does so again whenever   *)
(* it likes.                                                               *)
(***************************************************************************)
EXTENDS Integers, FiniteSets

CONSTANTS
  MaxUsers,     \* bound on the rows of User ever made
  Client,       \* records [slot, provider, account, email]
  Legacy,       \* rows there were before AuthIdentity, by id
  Nobody

(* E-mails and provider accounts are tuples; this is none.                 *)
NoEmail == <<>>

ASSUME ClientAssumption ==
  \A c \in Client : /\ c.provider \in {"email", "google", "apple"}
                    /\ c.provider # "apple" => c.email # NoEmail
                    /\ c.provider = "email" => c.account = c.email

(* Two rows never have one e-mail.                                         *)
ASSUME LegacyAssumption ==
  /\ MaxUsers \in Nat /\ DOMAIN Legacy \subseteq 1 .. MaxUsers
  /\ Nobody \notin 1 .. MaxUsers
  /\ \A u, v \in DOMAIN Legacy :
       /\ Legacy[u].provider # "none" /\ Legacy[u].email # NoEmail
       /\ u # v => Legacy[u].email # Legacy[v].email

VARIABLES
  users,        \* rows of User
  spent,        \* ids of deleted rows
  identities,   \* rows of AuthIdentity
  calls,        \* the request of each client
  last          \* the user its last successful one returned (history)

vars == <<users, spent, identities, calls, last>>

(* The uuids of users, numbered in the order of their creation.            *)
UserId == 1 .. MaxUsers

Row(p, a, e) == [provider |-> p, account |-> a, email |-> e]
NoRow == Row("none", NoEmail, NoEmail)
Identity == {<<c.provider, c.account>> : c \in {d \in Client : d.provider # "email"}}
Unlinked == [user |-> Nobody, email |-> NoEmail]

(* createSocialPlaceholderEmail.                                           *)
Placeholder(a) == <<"apple.local", a>>

Id(c) == <<c.provider, c.account>>
Idle  == [stage |-> "idle", user |-> Nobody, email |-> NoEmail]
Stage == {"idle", "touch", "legacy", "claim", "email", "link", "create",
          "conflict", "register"}
Email == {c.email : c \in Client} \cup {Placeholder(c.account) : c \in Client}
         \cup {Legacy[u].email : u \in DOMAIN Legacy} \cup {NoEmail}

Live   == {u \in UserId : users[u] # NoRow}
Fresh  == UserId \ (Live \cup spent)
NextId == CHOOSE u \in Fresh : \A v \in Fresh : u <= v
Owners(e) == {u \in Live : users[u].email = e}
Made(i)   == {u \in Live : users[u].provider = i[1] /\ users[u].account = i[2]}

TypeOK ==
  /\ \A u \in Live : users[u].email \in Email \ {NoEmail}
  /\ spent \subseteq UserId /\ spent \cap Live = {}
  /\ \A i \in Identity : identities[i].user \in Live \cup {Nobody}
  /\ \A c \in Client : /\ calls[c].stage \in Stage
                       /\ calls[c].user \in UserId \cup {Nobody}
                       /\ calls[c].email \in Email
  /\ last \in [Client -> UserId \cup {Nobody}]
  /\ \A u, v \in Live : u # v => users[u].email # users[v].email

Init ==
  /\ users = [u \in UserId |-> IF u \in DOMAIN Legacy THEN Legacy[u] ELSE NoRow]
  /\ spent = {}
  /\ identities = [i \in Identity |-> Unlinked]
  /\ calls = [c \in Client |-> Idle]
  /\ last = [c \in Client |-> Nobody]

Goes(c, stage, user, email) ==
  calls' = [calls EXCEPT ![c] = [stage |-> stage, user |-> user, email |-> email]]

Returns(c, u) == /\ calls' = [calls EXCEPT ![c] = Idle]
                 /\ last' = [last EXCEPT ![c] = u]

Throws(c) == calls' = [calls EXCEPT ![c] = Idle] /\ UNCHANGED last

-----------------------------------------------------------------------------
(* registerUser: the check of the e-mail, then the insert.                 *)
RegisterBegins(c) ==
  /\ c.provider = "email" /\ calls[c].stage = "idle"
  /\ Owners(c.email) = {}
  /\ Goes(c, "register", Nobody, NoEmail)
  /\ UNCHANGED <<users, spent, identities, last>>

RegisterEnds(c) ==
  /\ calls[c].stage = "register"
  /\ IF Owners(c.email) # {}
     THEN Throws(c) /\ UNCHANGED users
     ELSE /\ Fresh # {}
          /\ users' = [users EXCEPT ![NextId] =
                         Row("email", c.email, c.email)]
          /\ Returns(c, NextId)
  /\ UNCHANGED <<spent, identities>>

(* findOrCreateSocialUser: the identity of the verified token.             *)
SocialBegins(c) ==
  /\ c.provider # "email" /\ calls[c].stage = "idle"
  /\ LET i == identities[Id(c)]
     IN  IF i = Unlinked
         THEN Goes(c, "legacy", Nobody, NoEmail) /\ UNCHANGED last
         ELSE IF c.email \in {NoEmail, i.email}
         THEN Returns(c, i.user)
         ELSE Goes(c, "touch", i.user, NoEmail) /\ UNCHANGED last
  /\ UNCHANGED <<users, spent, identities>>

(* The identity's e-mail follows the token's; the row may be gone.         *)
Touches(c) ==
  /\ calls[c].stage = "touch"
  /\ IF identities[Id(c)].user = calls[c].user
     THEN /\ identities' = [identities EXCEPT ![Id(c)].email = c.email]
          /\ Returns(c, calls[c].user)
     ELSE Throws(c) /\ UNCHANGED identities
  /\ UNCHANGED <<users, spent>>

(* Variant: a row from before AuthIdentity is not looked for.              *)
SkipsLegacy(c) ==
  /\ calls[c].stage = "legacy"
  /\ Goes(c, "email", Nobody, NoEmail)
  /\ UNCHANGED <<users, spent, identities, last>>

FindsLegacy(c) ==
  /\ calls[c].stage = "legacy"
  /\ IF Made(Id(c)) # {}
     THEN \E u \in Made(Id(c)) : Goes(c, "claim", u, NoEmail)
     ELSE Goes(c, "email", Nobody, NoEmail)
  /\ UNCHANGED <<users, spent, identities, last>>

(* An identity is written: its key must be free and its user there.        *)
MayWrite(c, u) == identities[Id(c)] = Unlinked /\ u \in Live

Writes(c, u) ==
  /\ identities' = [identities EXCEPT ![Id(c)] = [user |-> u, email |-> c.email]]
  /\ Returns(c, u)

Claims(c) ==
  /\ calls[c].stage = "claim"
  /\ IF MayWrite(c, calls[c].user) THEN Writes(c, calls[c].user)
                                   ELSE Throws(c) /\ UNCHANGED identities
  /\ UNCHANGED <<users, spent>>

(* The owner of the e-mail is linked to, but never by Apple.               *)
LinksByEmail(c) == c.provider # "apple" /\ Owners(c.email) # {}

(* Apple's user gets a placeholder where the e-mail is missing or taken.   *)
MailOfNew(c) ==
  IF c.provider = "apple" /\ (c.email = NoEmail \/ Owners(c.email) # {})
  THEN Placeholder(c.account) ELSE c.email

FindsEmail(c) ==
  /\ calls[c].stage = "email"
  /\ IF LinksByEmail(c)
     THEN \E u \in Owners(c.email) : Goes(c, "link", u, NoEmail)
     ELSE Goes(c, "create", Nobody, MailOfNew(c))
  /\ UNCHANGED <<users, spent, identities, last>>

Links(c) ==
  /\ calls[c].stage = "link"
  /\ \/ MayWrite(c, calls[c].user) /\ Writes(c, calls[c].user)
     \/ /\ identities[Id(c)] # Unlinked
        /\ Goes(c, "conflict", Nobody, NoEmail)
        /\ UNCHANGED <<identities, last>>
     \/ /\ identities[Id(c)] = Unlinked /\ calls[c].user \notin Live
        /\ Throws(c) /\ UNCHANGED identities
  /\ UNCHANGED <<users, spent>>

(* User, identity and holdings are written together or not at all.         *)
Creates(c) ==
  /\ calls[c].stage = "create"
  /\ IF \/ Owners(calls[c].email) # {} \/ Made(Id(c)) # {}
        \/ identities[Id(c)] # Unlinked
     THEN /\ Goes(c, "conflict", Nobody, NoEmail)
          /\ UNCHANGED <<users, identities, last>>
     ELSE /\ Fresh # {}
          /\ users' = [users EXCEPT ![NextId] =
                         Row(c.provider, c.account, calls[c].email)]
          /\ Writes(c, NextId)
  /\ UNCHANGED spent

(* Variant: whoever has the e-mail is taken for the winner of the race.    *)
ResolvesByEmail(c) ==
  /\ calls[c].stage = "conflict"
  /\ IF Owners(c.email) # {}
     THEN \E u \in Owners(c.email) : Returns(c, u)
     ELSE Throws(c)
  /\ UNCHANGED <<users, spent, identities>>

(* After a conflict the identity another request has written counts.       *)
Resolves(c) ==
  /\ calls[c].stage = "conflict"
  /\ IF identities[Id(c)] # Unlinked
     THEN Returns(c, identities[Id(c)].user)
     ELSE Throws(c)
  /\ UNCHANGED <<users, spent, identities>>

(* deleteUserAccount, one transaction.                                     *)
DeletesAccount(u) ==
  /\ u \in Live
  /\ users' = [users EXCEPT ![u] = NoRow]
  /\ spent' = spent \cup {u}
  /\ identities' = [i \in Identity |-> IF identities[i].user = u
                                       THEN Unlinked ELSE identities[i]]
  /\ UNCHANGED <<calls, last>>

(* One request of a client goes on.                                        *)
Proceeds(c) ==
  \/ RegisterEnds(c) \/ Touches(c) \/ FindsLegacy(c) \/ Claims(c)
  \/ FindsEmail(c) \/ Links(c) \/ Creates(c) \/ Resolves(c)

(* An account is deleted while there are ids for others to be made.        *)
Deletes == \E u \in UserId :
  Cardinality(Fresh) > Cardinality(Client) /\ DeletesAccount(u)

Next == \/ \E c \in Client : RegisterBegins(c) \/ SocialBegins(c) \/ Proceeds(c)
        \/ Deletes

Spec == Init /\ [][Next]_vars

(* Requests end, and who has not got in tries again.                       *)
FairSpec ==
  Spec /\ \A c \in Client : WF_vars(Proceeds(c)) /\ WF_vars(SocialBegins(c))

-----------------------------------------------------------------------------
(* However the requests of one person interleave with each other and with  *)
(* other people's, they return the same account as long as it exists.      *)
SameAccount ==
  \A c, d \in Client :
    (Id(c) = Id(d) /\ c.provider # "email" /\ {last[c], last[d]} \subseteq Live)
      => last[c] = last[d]

(* An identity stays with its user for as long as that exists.             *)
IdentityStays ==
  [][\A i \in Identity :
       identities[i].user \in Live /\ users'[identities[i].user] # NoRow
         => identities'[i].user = identities[i].user]_vars

(* A person who signs in again, with any device, gets the same account,    *)
(* and an identity stays with its user (resolveSocialUser).                *)
AccountsStay == [](TypeOK /\ SameAccount) /\ IdentityStays

(* No conflict is for ever: who tries again gets an account, whatever      *)
(* others register, link or delete meanwhile.                              *)
EveryoneGetsIn ==
  \A c \in Client : c.provider # "email" => <>(last[c] # Nobody)
=============================================================================
