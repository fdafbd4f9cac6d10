--------------------------- MODULE RequestsProofs ---------------------------
(***************************************************************************)
(* Proofs about parts of the API that share no state: the two rate         *)
(* limiters, sign-in with uploads, the OAuth connections, the agent's      *)
(* actions and the stream of its operations, each for any number of        *)
(* clients.                                                                *)
(***************************************************************************)
EXTENDS Requests, RateLimits, CalendarConnections, AgentActions, OperationEvents,
        FiniteSetTheorems, TLAPS

(***************************************************************************)
(* The two limiters agree, for every bucket and any number of actors.      *)
(***************************************************************************)
\* The counter of a key lives exactly as long as the window in memory is open,
\* and below the limit both have the same count.
Matches(k) ==
    /\ memory[k].start <= now
    /\ memory[k].count = 0 <=> redis[k].count = 0
    /\ redis[k].count > 0 => redis[k].expires = memory[k].start + Window
    /\ redis[k].count <= MaxRequests => memory[k].count = redis[k].count
    /\ redis[k].count > MaxRequests => memory[k].count = MaxRequests

RateInv == RateTypeOK /\ \A k \in faultless : Matches(k)

\* RateInv holds of the empty counters.
LEMMA RateInitially == RateInit => RateInv
<1> SUFFICES ASSUME RateInit
             PROVE  RateInv
  OBVIOUS
<1> USE DEF RateInit, Unused, Expired
<1>1. RateTypeOK
  BY RateAssumption DEF RateTypeOK
<1>2. ASSUME NEW k \in Keys
      PROVE  Matches(k)
  <2>1. memory[k].start = 0 /\ memory[k].count = 0 /\ redis[k].count = 0 /\ now = 0
    OBVIOUS
  <2> QED BY <2>1, RateAssumption DEF Matches
<1> QED BY <1>1, <1>2 DEF RateInv

\* What the limiters write has the type of what they had.
LEMMA CountersTyped ==
    ASSUME RateTypeOK, NEW k \in Keys
    PROVE  /\ Counted(k) \in [start : Nat, count : 0 .. MaxRequests]
           /\ Incremented(k) \in [count : 0 .. MaxRequests + 1, expires : Nat]
<1>1. /\ memory[k] \in [start : Nat, count : 0 .. MaxRequests]
      /\ redis[k] \in [count : 0 .. MaxRequests + 1, expires : Nat]
      /\ now \in Nat
  BY DEF RateTypeOK
<1>2. Counted(k) \in [start : Nat, count : 0 .. MaxRequests]
  BY <1>1, RateAssumption DEF Counted, MemoryAdmits, WindowIsOpen
<1>3. Incremented(k) \in [count : 0 .. MaxRequests + 1, expires : Nat]
  BY <1>1, RateAssumption DEF Incremented, CounterLives
<1> QED BY <1>2, <1>3

\* A request that is put to both keeps the counters of its key matched.
LEMMA AskKeepsMatch ==
    ASSUME RateTypeOK, NEW k \in Keys, Matches(k), Ask(k)
    PROVE  Matches(k)'
<1>1. /\ memory[k] \in [start : Nat, count : 0 .. MaxRequests]
      /\ redis[k] \in [count : 0 .. MaxRequests + 1, expires : Nat]
      /\ now \in Nat
  BY DEF RateTypeOK
<1>2. memory'[k] = Counted(k) /\ redis'[k] = Incremented(k) /\ now' = now
  BY DEF Ask, RateTypeOK
<1>3. CounterLives(k) <=> WindowIsOpen(k)
  BY <1>1, RateAssumption DEF Matches, CounterLives, WindowIsOpen
<1>4. CASE ~WindowIsOpen(k)
  <2>1. /\ Counted(k) = [start |-> now, count |-> 1]
        /\ Incremented(k) = [count |-> 1, expires |-> now + Window]
    BY <1>3, <1>4 DEF Counted, MemoryAdmits, Incremented
  <2> QED BY <1>1, <1>2, <2>1, RateAssumption DEF Matches
<1>5. CASE WindowIsOpen(k) /\ memory[k].count < MaxRequests
  <2>1. /\ Counted(k) = [memory[k] EXCEPT !.count = @ + 1]
        /\ Incremented(k) = [redis[k] EXCEPT !.count = @ + 1]
    BY <1>1, <1>3, <1>5, RateAssumption DEF Counted, MemoryAdmits, Incremented, Matches
  <2> QED BY <1>1, <1>2, <1>5, <2>1, RateAssumption DEF Matches, WindowIsOpen
<1>6. CASE WindowIsOpen(k) /\ ~(memory[k].count < MaxRequests)
  <2>1. Counted(k) = memory[k]
    BY <1>6 DEF Counted, MemoryAdmits
  <2>2. Incremented(k).expires = redis[k].expires /\ Incremented(k).count = MaxRequests + 1
    BY <1>1, <1>3, <1>6, RateAssumption DEF Incremented, Matches, WindowIsOpen
  <2> QED BY <1>1, <1>2, <1>6, <2>1, <2>2, RateAssumption DEF Matches, WindowIsOpen
<1> QED BY <1>4, <1>5, <1>6

\* A step keeps RateInv.
LEMMA RateStep == RateInv /\ [RateNext]_rateVars => RateInv'
<1> SUFFICES ASSUME RateInv, [RateNext]_rateVars
             PROVE  RateInv'
  OBVIOUS
<1> USE DEF RateInv
<1>1. CASE Tick
  BY <1>1 DEF Tick, RateTypeOK, Matches
<1>2. ASSUME NEW k \in Keys, Ask(k)
      PROVE  RateInv'
  <2>1. RateTypeOK'
    BY <1>2, CountersTyped DEF Ask, RateTypeOK
  <2>2. ASSUME NEW j \in faultless, j # k
        PROVE  Matches(j)'
    BY <1>2, <2>2 DEF Ask, Matches, RateTypeOK
  <2>3. k \in faultless => Matches(k)'
    BY <1>2, AskKeepsMatch
  <2> QED BY <1>2, <2>1, <2>2, <2>3 DEF Ask
<1>3. ASSUME NEW k \in Keys, RedisFails(k)
      PROVE  RateInv'
  <2>1. RateTypeOK'
    BY <1>3, CountersTyped DEF RedisFails, RateTypeOK
  <2>2. ASSUME NEW j \in faultless', j # k
        PROVE  Matches(j)'
    BY <1>3, <2>2 DEF RedisFails, Matches, RateTypeOK
  <2> QED BY <1>3, <2>1, <2>2 DEF RedisFails
<1>4. CASE UNCHANGED rateVars
  BY <1>4 DEF rateVars, RateTypeOK, Matches
<1> QED BY <1>1, <1>2, <1>3, <1>4 DEF RateNext

\* RateInv is invariant.
LEMMA RateInvariance == RateSpec => []RateInv
BY RateInitially, RateStep, PTL DEF RateSpec

\* The limiters agree (RateLimiter.allow, RedisRateLimiter.allow).
THEOREM SameLimits == RateSpec => []LimitersAgree
<1>1. ASSUME RateInv, NEW k \in faultless
      PROVE  MemoryAdmits(k) <=> RedisAdmits(k)
  <2>1. /\ memory[k] \in [start : Nat, count : 0 .. MaxRequests]
        /\ redis[k] \in [count : 0 .. MaxRequests + 1, expires : Nat]
        /\ now \in Nat
        /\ Matches(k)
    BY <1>1 DEF RateInv, RateTypeOK
  <2> QED BY <2>1, RateAssumption
          DEF Matches, MemoryAdmits, WindowIsOpen, RedisAdmits, CounterLives
<1>2. RateInv => LimitersAgree
  BY <1>1 DEF LimitersAgree
<1> QED BY <1>2, RateInvariance, PTL
-----------------------------------------------------------------------------
(***************************************************************************)
(* Sign-in, resets and uploads, for any number of clients of which one     *)
(* resets: what an open transaction may be, and what an upload has stored. *)
(***************************************************************************)
UserRows == [email : Emails, creator : Clients]

WorkspaceRows == [id : Nat, owner : UserRows]

Txns ==
    {NoTxn} \cup [step : {"insert", "workspace", "seed", "delete", "commit"}, user : UserRows,
                  isNew : BOOLEAN, added : SUBSET WorkspaceRows, deleted : SUBSET WorkspaceRows,
                  seed : BOOLEAN, opens : BOOLEAN]

SignInTyped ==
    /\ users \subseteq UserRows
    /\ workspaces \subseteq WorkspaceRows
    /\ sessions \subseteq UserRows
    /\ txn \in [Clients -> Txns]
    /\ inserted \in Nat

OwnersExist == \A w \in workspaces : w.owner \in users

\* What a transaction of c may be, over the committed users and workspaces: it adds a
\* user nobody else has and its one workspace, or replaces all the workspaces of its
\* user by one, or adds nothing.
TxnIsSound(c, t, known, spaces) ==
    t # NoTxn =>
        /\ t.seed => c \in Resetters
        /\ t.step = "insert" => ~t.isNew /\ t.user.creator = c
        /\ t.step # "insert" /\ ~t.isNew => t.user \in known
        /\ t.isNew => t.user.creator = c /\ \A u \in known : u.email # t.user.email
        /\ t.step \in {"insert", "workspace"} => t.added = {}
        /\ t.step \in {"seed", "commit"} =>
              IF t.isNew \/ (t.step = "commit" /\ t.seed)
              THEN \E w \in WorkspaceRows : t.added = {w} /\ w.owner = t.user
              ELSE t.added = {}
        /\ t.step \in {"insert", "workspace", "seed"} => t.deleted = {}
        /\ t.step = "commit" /\ ~t.seed => t.deleted = {}
        /\ t.step \in {"seed", "delete"} => t.seed
        /\ t.step = "delete" \/ (t.step = "commit" /\ t.seed) =>
              t.deleted = OwnedBy(t.user, spaces)

TxnsAreSound == \A c \in Clients : TxnIsSound(c, txn[c], users, workspaces)

IsNew(c) == txn[c] # NoTxn /\ txn[c].isNew

NewEmailsDiffer ==
    \A c, d \in Clients : IsNew(c) /\ IsNew(d) /\ c # d => txn[c].user.email # txn[d].user.email

SignInInv ==
    /\ SignInTyped
    /\ OwnersExist
    /\ TxnsAreSound
    /\ NewEmailsDiffer
    /\ OneWorkspacePerUser

\* SignInInv holds of the empty tables.
LEMMA SignInInitially == SignInInit => SignInInv
BY DEF SignInInit, SignInInv, SignInTyped, OwnersExist, TxnsAreSound, TxnIsSound, NewEmailsDiffer,
       IsNew, OneWorkspacePerUser, Txns

\* What an open transaction is made of.
LEMMA TxnFields ==
    ASSUME SignInInv, NEW c \in Clients, txn[c] # NoTxn
    PROVE  /\ txn[c] \in Txns /\ txn[c].user \in UserRows /\ txn[c].user.email \in Emails
           /\ txn[c].user.creator \in Clients
           /\ txn[c].added \in SUBSET WorkspaceRows /\ txn[c].deleted \in SUBSET WorkspaceRows
           /\ txn[c].isNew \in BOOLEAN /\ txn[c].seed \in BOOLEAN /\ txn[c].opens \in BOOLEAN
           /\ txn[c].step \in {"insert", "workspace", "seed", "delete", "commit"}
           /\ TxnIsSound(c, txn[c], users, workspaces)
BY DEF SignInInv, SignInTyped, TxnsAreSound, Txns, UserRows

\* Nothing is committed: it is enough that the transaction is sound.
LEMMA TxnStep ==
    ASSUME SignInInv, NEW c \in Clients, NEW t \in Txns, SetTxn(c, t),
           UNCHANGED <<users, workspaces>>, sessions' \subseteq sessions, inserted' \in Nat,
           TxnIsSound(c, t, users, workspaces),
           t # NoTxn /\ t.isNew =>
              \A d \in Clients \ {c} : IsNew(d) => txn[d].user.email # t.user.email
    PROVE  SignInInv'
<1>1. /\ txn' \in [Clients -> Txns] /\ txn'[c] = t
      /\ \A d \in Clients \ {c} : txn'[d] = txn[d]
  BY DEF SetTxn, SignInInv, SignInTyped
<1>2. SignInTyped'
  BY <1>1 DEF SignInInv, SignInTyped
<1>3. OwnersExist' /\ OneWorkspacePerUser'
  BY DEF SignInInv, OwnersExist, OneWorkspacePerUser
<1>4. TxnsAreSound'
  BY <1>1 DEF SignInInv, TxnsAreSound
<1>5. NewEmailsDiffer'
  <2> SUFFICES ASSUME NEW a \in Clients, NEW b \in Clients, IsNew(a)', IsNew(b)', a # b
               PROVE  txn'[a].user.email # txn'[b].user.email
    BY DEF NewEmailsDiffer
  <2>1. CASE a # c /\ b # c
    BY <1>1, <2>1 DEF IsNew, SignInInv, NewEmailsDiffer
  <2>2. CASE a = c
    BY <1>1, <2>2 DEF IsNew
  <2>3. CASE b = c
    BY <1>1, <2>3 DEF IsNew
  <2> QED BY <2>1, <2>2, <2>3
<1> QED BY <1>2, <1>3, <1>4, <1>5 DEF SignInInv

\* A user is looked up.
LEMMA SelectUserInv ==
    ASSUME SignInInv, NEW c \in Clients, NEW email \in Emails, NEW seed \in BOOLEAN,
           SelectUser(c, email, seed)
    PROVE  SignInInv'
<1> DEFINE found == {u \in users : u.email = email}
<1>1. PICK user \in IF found = {} THEN {[email |-> email, creator |-> c]} ELSE found :
         SetTxn(c, [step |-> IF found = {} THEN "insert" ELSE "workspace",
                    user |-> user, isNew |-> FALSE, added |-> {}, deleted |-> {},
                    seed |-> seed, opens |-> TRUE])
  BY DEF SelectUser
<1>2. /\ UNCHANGED <<users, workspaces, sessions, inserted>> /\ users \subseteq UserRows
      /\ seed => c \in Resetters
  BY DEF SelectUser, SignInInv, SignInTyped
<1> DEFINE t == [step |-> IF found = {} THEN "insert" ELSE "workspace",
                 user |-> user, isNew |-> FALSE, added |-> {}, deleted |-> {},
                 seed |-> seed, opens |-> TRUE]
<1>3. CASE found = {}
  <2>1. user = [email |-> email, creator |-> c]
    BY <1>1, <1>3
  <2>2. t \in Txns /\ ~t.isNew
    BY <1>3, <2>1 DEF Txns, UserRows
  <2>3. TxnIsSound(c, t, users, workspaces)
    BY <1>2, <1>3, <2>1 DEF TxnIsSound
  <2> QED BY <1>1, <1>2, <2>2, <2>3, TxnStep DEF SignInInv, SignInTyped
<1>4. CASE found # {}
  <2>1. user \in users
    BY <1>1, <1>4
  <2>2. t \in Txns /\ ~t.isNew
    BY <1>2, <1>4, <2>1 DEF Txns
  <2>3. TxnIsSound(c, t, users, workspaces)
    BY <1>2, <1>4, <2>1 DEF TxnIsSound
  <2> QED BY <1>1, <1>2, <2>2, <2>3, TxnStep DEF SignInInv, SignInTyped
<1> QED BY <1>3, <1>4

\* A transaction is given up.
LEMMA RollbackInv ==
    ASSUME SignInInv, NEW c \in Clients, SetTxn(c, NoTxn),
           UNCHANGED <<users, workspaces, sessions, inserted>>
    PROVE  SignInInv'
<1>1. NoTxn \in Txns /\ TxnIsSound(c, NoTxn, users, workspaces)
  BY DEF Txns, TxnIsSound
<1> QED BY <1>1, TxnStep DEF SignInInv, SignInTyped

\* A user is inserted: the other open inserts are of other emails.
LEMMA InsertUserInv ==
    ASSUME SignInInv, NEW c \in Clients, InsertUser(c)
    PROVE  SignInInv'
<1>1. CASE EmailTaken(c)
  BY <1>1, RollbackInv DEF InsertUser
<1>2. CASE ~EmailTaken(c)
  <2> DEFINE old == txn[c]
             t == [old EXCEPT !.step = "workspace", !.isNew = TRUE]
  <2>1. /\ old # NoTxn /\ old.step = "insert" /\ SetTxn(c, t)
        /\ UNCHANGED <<users, workspaces, sessions, inserted>>
    BY <1>2 DEF InsertUser, InStep, NoTxn
  <2>2. \A d \in Clients \ {c} : IsNew(d) => txn[d].user.email # old.user.email
    BY DEF InsertUser, IsNew
  <2>3. \A u \in users : u.email # old.user.email
    BY <1>2 DEF EmailTaken
  <2>4. /\ old \in Txns \ {NoTxn} /\ TxnIsSound(c, old, users, workspaces)
    BY <2>1, TxnFields
  <2> HIDE DEF old
  <2>5. /\ t \in Txns /\ t.user = old.user /\ t.isNew /\ t.step = "workspace"
        /\ t.added = old.added /\ t.deleted = old.deleted /\ t.seed = old.seed
    BY <2>4 DEF Txns
  <2> HIDE DEF t
  <2>6. TxnIsSound(c, t, users, workspaces)
    BY <2>1, <2>3, <2>4, <2>5 DEF TxnIsSound
  <2> QED BY <2>1, <2>2, <2>5, <2>6, TxnStep DEF SignInInv, SignInTyped
<1> QED BY <1>1, <1>2

\* A workspace that is inserted is its user's.
LEMMA NewWorkspaceIsRow ==
    ASSUME SignInInv, NEW user \in UserRows
    PROVE  NewWorkspace(user) \in WorkspaceRows /\ NewWorkspace(user).owner = user
BY DEF SignInInv, SignInTyped, NewWorkspace, WorkspaceRows

\* Only new users are without a workspace.
LEMMA OnlyNewAreWithout ==
    ASSUME SignInInv, NEW c \in Clients, txn[c] # NoTxn, txn[c].step # "insert"
    PROVE  OwnedBy(txn[c].user, workspaces) = {} <=> txn[c].isNew
<1>1. TxnIsSound(c, txn[c], users, workspaces)
  BY TxnFields
<1>2. CASE txn[c].isNew
  BY <1>1, <1>2 DEF TxnIsSound, OwnedBy, SignInInv, OwnersExist
<1>3. CASE ~txn[c].isNew
  <2>1. txn[c].user \in users
    BY <1>1, <1>3 DEF TxnIsSound
  <2> QED BY <1>3, <2>1 DEF SignInInv, OneWorkspacePerUser
<1> QED BY <1>2, <1>3

\* A workspace is inserted for a user that has none.
LEMMA EnsureWorkspaceInv ==
    ASSUME SignInInv, NEW c \in Clients, EnsureWorkspace(c)
    PROVE  SignInInv'
<1> DEFINE old == txn[c]
           missing == OwnedBy(old.user, workspaces) = {}
           t == [old EXCEPT !.step = IF old.seed THEN "seed" ELSE "commit",
                            !.added = IF missing THEN {NewWorkspace(old.user)} ELSE {}]
<1>1. /\ old # NoTxn /\ old.step = "workspace" /\ SetTxn(c, t)
      /\ UNCHANGED <<users, workspaces, sessions>>
      /\ inserted' = IF missing THEN inserted + 1 ELSE inserted
  BY DEF EnsureWorkspace, InStep, NoTxn
<1>2. inserted' \in Nat
  BY <1>1 DEF SignInInv, SignInTyped
<1>3. missing <=> old.isNew
  BY <1>1, OnlyNewAreWithout
<1>4. /\ old \in Txns \ {NoTxn} /\ TxnIsSound(c, old, users, workspaces) /\ old.user \in UserRows
  BY <1>1, TxnFields
<1>5. old.isNew => \A d \in Clients \ {c} : IsNew(d) => txn[d].user.email # old.user.email
  BY <1>1 DEF SignInInv, NewEmailsDiffer, IsNew
<1>6. NewWorkspace(old.user) \in WorkspaceRows /\ NewWorkspace(old.user).owner = old.user
  BY <1>4, NewWorkspaceIsRow
<1> DEFINE new == NewWorkspace(old.user)
<1> HIDE DEF new, old, missing
<1>7. /\ t \in Txns /\ t.user = old.user /\ t.isNew = old.isNew
      /\ t.step = (IF old.seed THEN "seed" ELSE "commit")
      /\ t.added = (IF missing THEN {new} ELSE {})
      /\ t.deleted = old.deleted /\ t.seed = old.seed
  BY <1>4, <1>6 DEF Txns, new
<1>8. new \in WorkspaceRows /\ new.owner = old.user
  BY <1>6 DEF new
<1> HIDE DEF t
<1>9. old.isNew \in BOOLEAN /\ old.seed \in BOOLEAN /\ old.step # "insert"
  BY <1>1, <1>4 DEF Txns
<1>10. TxnIsSound(c, t, users, workspaces)
  <2>1. /\ old.seed => c \in Resetters
        /\ ~old.isNew => old.user \in users
        /\ old.isNew => old.user.creator = c /\ \A u \in users : u.email # old.user.email
        /\ old.added = {} /\ old.deleted = {}
    BY <1>1, <1>4, <1>9 DEF TxnIsSound
  <2>2. CASE old.seed
    BY <1>3, <1>7, <1>8, <1>9, <2>1, <2>2 DEF TxnIsSound
  <2>3. CASE ~old.seed
    BY <1>3, <1>7, <1>8, <1>9, <2>1, <2>3 DEF TxnIsSound
  <2> QED BY <1>9, <2>2, <2>3
<1> QED BY <1>1, <1>2, <1>5, <1>7, <1>10, TxnStep

\* A reset begins for a user that has signed in.
LEMMA BeginResetInv ==
    ASSUME SignInInv, NEW c \in Clients, BeginReset(c)
    PROVE  SignInInv'
<1>1. PICK w \in workspaces :
         SetTxn(c, [step |-> "seed", user |-> w.owner, isNew |-> FALSE, added |-> {},
                    deleted |-> {}, seed |-> TRUE, opens |-> FALSE])
  BY DEF BeginReset
<1> DEFINE t == [step |-> "seed", user |-> w.owner, isNew |-> FALSE, added |-> {},
                 deleted |-> {}, seed |-> TRUE, opens |-> FALSE]
<1>2. w.owner \in users /\ w.owner \in UserRows
  BY DEF SignInInv, OwnersExist, SignInTyped
<1>3. t \in Txns /\ ~t.isNew
  BY <1>2 DEF Txns
<1>4. TxnIsSound(c, t, users, workspaces)
  BY <1>2 DEF TxnIsSound, BeginReset
<1> QED BY <1>1, <1>3, <1>4, TxnStep DEF SignInInv, SignInTyped, BeginReset

\* A reset finds the workspaces of its user.
LEMMA FindRowsInv ==
    ASSUME SignInInv, NEW c \in Clients, FindRows(c)
    PROVE  SignInInv'
<1> DEFINE old == txn[c]
           owned == OwnedBy(old.user, workspaces)
           t == [old EXCEPT !.step = "delete", !.deleted = owned]
<1>1. /\ old # NoTxn /\ old.step = "seed" /\ SetTxn(c, t)
      /\ UNCHANGED <<users, workspaces, sessions, inserted>>
  BY DEF FindRows, InStep, NoTxn
<1>2. /\ old \in Txns \ {NoTxn} /\ TxnIsSound(c, old, users, workspaces)
  BY <1>1, TxnFields
<1>3. old.isNew => \A d \in Clients \ {c} : IsNew(d) => txn[d].user.email # old.user.email
  BY <1>1 DEF SignInInv, NewEmailsDiffer, IsNew
<1>4. owned \in SUBSET WorkspaceRows
  BY DEF OwnedBy, SignInInv, SignInTyped
<1>5. owned = OwnedBy(old.user, workspaces)
  OBVIOUS
<1> HIDE DEF old, owned
<1>6. /\ t \in Txns /\ t.user = old.user /\ t.isNew = old.isNew /\ t.step = "delete"
      /\ t.deleted = owned /\ t.seed = old.seed /\ t # NoTxn
  BY <1>2, <1>4 DEF Txns, NoTxn
<1> HIDE DEF t
<1>7. TxnIsSound(c, t, users, workspaces)
  <2>1. old.seed
    BY <1>1, <1>2 DEF TxnIsSound
  <2> QED BY <1>1, <1>2, <1>5, <1>6, <2>1 DEF TxnIsSound
<1> QED BY <1>1, <1>3, <1>6, <1>7, TxnStep DEF SignInInv, SignInTyped

\* A reset inserts the workspace that replaces them.
LEMMA SeedInv ==
    ASSUME SignInInv, NEW c \in Clients, Seed(c)
    PROVE  SignInInv'
<1> DEFINE old == txn[c]
           new == NewWorkspace(old.user)
           t == [old EXCEPT !.step = "commit", !.deleted = @ \cap workspaces, !.added = {new}]
<1>1. /\ old # NoTxn /\ old.step = "delete" /\ SetTxn(c, t)
      /\ UNCHANGED <<users, workspaces, sessions>> /\ inserted' = inserted + 1
  BY DEF Seed, InStep, NoTxn
<1>2. /\ old \in Txns \ {NoTxn} /\ TxnIsSound(c, old, users, workspaces) /\ old.user \in UserRows
  BY <1>1, TxnFields
<1>3. old.isNew => \A d \in Clients \ {c} : IsNew(d) => txn[d].user.email # old.user.email
  BY <1>1 DEF SignInInv, NewEmailsDiffer, IsNew
<1>4. new \in WorkspaceRows /\ new.owner = old.user
  BY <1>2, NewWorkspaceIsRow
<1>5. old.deleted = OwnedBy(old.user, workspaces) /\ old.deleted \cap workspaces = old.deleted
  BY <1>1, <1>2 DEF TxnIsSound, OwnedBy
<1> HIDE DEF old, new
<1>6. /\ t \in Txns /\ t.user = old.user /\ t.isNew = old.isNew /\ t.step = "commit"
      /\ t.deleted = old.deleted /\ t.added = {new} /\ t.seed = old.seed /\ t # NoTxn
  BY <1>2, <1>4, <1>5 DEF Txns, NoTxn
<1> HIDE DEF t
<1>7. TxnIsSound(c, t, users, workspaces)
  <2>1. old.seed
    BY <1>1, <1>2 DEF TxnIsSound
  <2> QED BY <1>1, <1>2, <1>4, <1>5, <1>6, <2>1 DEF TxnIsSound
<1> QED BY <1>1, <1>3, <1>6, <1>7, TxnStep DEF SignInInv, SignInTyped

\* A session expires.
LEMMA ExpireInv ==
    ASSUME SignInInv, NEW user, Expire(user)
    PROVE  SignInInv'
<1>1. /\ UNCHANGED <<users, workspaces, txn, inserted>> /\ sessions' \subseteq sessions
  BY DEF Expire
<1> QED
  BY <1>1 DEF SignInInv, SignInTyped, OwnersExist, TxnsAreSound, NewEmailsDiffer, IsNew,
              OneWorkspacePerUser

\* A transaction commits.  At most one of the open ones deletes (OneResetter), and what
\* the others add is for users of their own.
LEMMA CommitInv ==
    ASSUME SignInInv, NEW c \in Clients, CommitTxn(c)
    PROVE  SignInInv'
<1> DEFINE t == txn[c]
<1>1. /\ t # NoTxn /\ t.step = "commit" /\ SetTxn(c, NoTxn) /\ inserted' = inserted
      /\ users' = (IF t.isNew THEN users \cup {t.user} ELSE users)
      /\ workspaces' = (workspaces \ t.deleted) \cup t.added
      /\ sessions' = (IF t.opens THEN sessions \cup {t.user} ELSE sessions)
  BY DEF CommitTxn, InStep, NoTxn
<1>2. /\ t \in Txns \ {NoTxn} /\ t.user \in UserRows /\ t.added \in SUBSET WorkspaceRows
      /\ t.isNew \in BOOLEAN /\ t.seed \in BOOLEAN /\ TxnIsSound(c, t, users, workspaces)
  BY <1>1, TxnFields
<1>3. \A d \in Clients \ {c} : IsNew(c) /\ IsNew(d) => txn[d].user.email # t.user.email
  BY DEF SignInInv, NewEmailsDiffer
<1>4. t.isNew <=> IsNew(c)
  BY <1>1 DEF IsNew
<1>5. /\ txn' \in [Clients -> Txns] /\ txn'[c] = NoTxn
      /\ \A d \in Clients \ {c} : txn'[d] = txn[d]
  BY <1>1 DEF SetTxn, SignInInv, SignInTyped, Txns
<1>6. /\ t.seed => c \in Resetters
      /\ ~t.isNew => t.user \in users
      /\ t.isNew => t.user.creator = c /\ \A u \in users : u.email # t.user.email
      /\ IF t.isNew \/ t.seed THEN \E w \in WorkspaceRows : t.added = {w} /\ w.owner = t.user
         ELSE t.added = {}
      /\ t.deleted = (IF t.seed THEN OwnedBy(t.user, workspaces) ELSE {})
  BY <1>1, <1>2 DEF TxnIsSound
<1> HIDE DEF t
<1>7. /\ users \subseteq users' /\ users' \subseteq UserRows /\ t.user \in users'
      /\ \A u \in users' : u \in users \/ (t.isNew /\ u = t.user)
  BY <1>1, <1>2, <1>6 DEF SignInInv, SignInTyped
<1>8. SignInTyped'
  BY <1>1, <1>2, <1>5, <1>7 DEF SignInInv, SignInTyped
<1>9. OwnersExist'
  BY <1>1, <1>6, <1>7 DEF SignInInv, OwnersExist
<1>10. \A u \in UserRows : u # t.user => OwnedBy(u, workspaces') = OwnedBy(u, workspaces)
  BY <1>1, <1>6 DEF OwnedBy
<1>11. t.isNew => OwnedBy(t.user, workspaces) = {}
  BY <1>6 DEF OwnedBy, SignInInv, OwnersExist
<1>12. \E w \in workspaces' : OwnedBy(t.user, workspaces') = {w}
  <2>1. CASE t.isNew \/ t.seed
    <3>1. PICK w \in WorkspaceRows : t.added = {w} /\ w.owner = t.user
      BY <1>6, <2>1
    <3>2. OwnedBy(t.user, workspaces \ t.deleted) = {}
      BY <1>2, <1>6, <1>11, <2>1 DEF OwnedBy
    <3> QED BY <1>1, <3>1, <3>2 DEF OwnedBy
  <2>2. CASE ~(t.isNew \/ t.seed)
    BY <1>1, <1>6, <2>2 DEF SignInInv, OneWorkspacePerUser
  <2> QED BY <2>1, <2>2
<1>13. OneWorkspacePerUser'
  <2>1. ASSUME NEW u \in users', NEW v \in users', u.email = v.email
        PROVE  u = v
    BY <1>6, <1>7, <2>1 DEF SignInInv, OneWorkspacePerUser
  <2>2. ASSUME NEW u \in users'
        PROVE  \E w \in workspaces' : OwnedBy(u, workspaces') = {w}
    <3>1. CASE u = t.user
      BY <1>12, <3>1
    <3>2. CASE u # t.user
      <4>1. u \in users /\ u \in UserRows
        BY <1>7, <3>2
      <4>2. PICK w \in workspaces : OwnedBy(u, workspaces) = {w}
        BY <4>1 DEF SignInInv, OneWorkspacePerUser
      <4>3. OwnedBy(u, workspaces') = {w}
        BY <1>10, <3>2, <4>1, <4>2
      <4>4. w \in workspaces'
        BY <4>3 DEF OwnedBy
      <4> QED BY <4>3, <4>4
    <3> QED BY <3>1, <3>2
  <2> QED BY <2>1, <2>2 DEF OneWorkspacePerUser
<1>14. ASSUME NEW d \in Clients, txn'[d] # NoTxn
       PROVE  TxnIsSound(d, txn'[d], users', workspaces')
  <2> DEFINE s == txn[d]
  <2>1. d # c /\ txn'[d] = s /\ s # NoTxn
    BY <1>5, <1>14
  <2>2. /\ TxnIsSound(d, s, users, workspaces) /\ s.user \in UserRows
        /\ s.isNew \in BOOLEAN /\ s.seed \in BOOLEAN
        /\ s.step \in {"insert", "workspace", "seed", "delete", "commit"}
    BY <2>1, TxnFields
  <2>3. s.isNew <=> IsNew(d)
    BY <2>1 DEF IsNew
  <2> HIDE DEF s
  <2>4. s.isNew => \A u \in users' : u.email # s.user.email
    <3>1. s.isNew => \A u \in users : u.email # s.user.email
      BY <2>1, <2>2 DEF TxnIsSound
    <3>2. s.isNew /\ t.isNew => s.user.email # t.user.email
      BY <1>3, <1>4, <2>1, <2>3 DEF s
    <3> QED BY <1>7, <3>1, <3>2
  <2>5. s.user = t.user => ~t.isNew
    <3>1. s.step = "insert" \/ s.isNew => s.user.creator = d
      BY <2>1, <2>2 DEF TxnIsSound
    <3>2. s.step # "insert" /\ ~s.isNew => s.user \in users
      BY <2>1, <2>2 DEF TxnIsSound
    <3> QED BY <1>6, <2>1, <3>1, <3>2
  <2>6. s.seed => ~t.seed
    BY <1>6, <2>1, <2>2, OneResetter DEF TxnIsSound
  <2>7. s.seed => OwnedBy(s.user, workspaces') = OwnedBy(s.user, workspaces)
    <3>1. s.user = t.user /\ ~t.seed => workspaces' = workspaces
      BY <1>1, <1>6, <2>5
    <3> QED BY <1>10, <2>2, <2>6, <3>1
  <2>8. s.step = "delete" => s.seed
    BY <2>1, <2>2 DEF TxnIsSound
  <2> HIDE DEF TxnIsSound
  <2> QED
    BY <1>7, <2>1, <2>2, <2>4, <2>7, <2>8 DEF TxnIsSound
<1>15. TxnsAreSound'
  BY <1>14 DEF TxnsAreSound, TxnIsSound
<1>16. NewEmailsDiffer'
  BY <1>5 DEF NewEmailsDiffer, IsNew, SignInInv
<1> QED BY <1>8, <1>9, <1>13, <1>15, <1>16 DEF SignInInv

UploadSteps == {"new", "bucket", "put", "commit", "delete", "done", "failed"}

UploadInv ==
    /\ upload \in [Artifacts -> [step : UploadSteps, workspace : WorkspaceRows \cup {NoWorkspace}]]
    /\ created \subseteq Artifacts
    /\ \A row \in artifacts : row.id \in Artifacts
    /\ \A a \in Artifacts :
          /\ AtStep(a, "commit") => a \in objects
          /\ a \in created => AtStep(a, "done") /\ a \in objects
    /\ \A row \in artifacts :
          /\ upload[row.id].step \in {"done", "delete", "failed"}
          /\ AtStep(row.id, "delete") => row.id \in doubtful
    /\ UploadsAreStored

\* UploadInv holds before the first upload.
LEMMA UploadInitially == UploadInit => UploadInv
BY DEF UploadInit, UploadInv, UploadsAreStored, AtStep, NoUpload, UploadSteps

\* An upload moves and the others stay.
LEMMA GoToStep ==
    ASSUME UploadInv, NEW a \in Artifacts, NEW step \in UploadSteps, GoTo(a, step)
    PROVE  /\ upload' \in [Artifacts -> [step : UploadSteps, workspace : WorkspaceRows \cup {NoWorkspace}]]
           /\ upload'[a].step = step
           /\ \A b \in Artifacts \ {a} : upload'[b] = upload[b]
BY DEF UploadInv, GoTo

\* A step of an upload keeps UploadInv.
LEMMA UploadStepInv ==
    ASSUME UploadInv, NEW known, UploadStep(known)
    PROVE  UploadInv'
<1>1. PICK a \in Artifacts :
         EnsureBucket(a) \/ Put(a) \/ CommitArtifact(a, known) \/ CommitFails(a)
            \/ DeleteObject(a) \/ Vanish(a)
  BY DEF UploadStep
<1>2. CASE EnsureBucket(a)
  <2>1. PICK step \in {"put", "failed"} : GoTo(a, step)
    BY <1>2 DEF EnsureBucket
  <2> QED
    BY <1>2, <2>1, GoToStep DEF EnsureBucket, UploadInv, UploadsAreStored, AtStep, UploadSteps
<1>3. CASE Put(a)
  <2>1. /\ AtStep(a, "put") /\ UNCHANGED <<artifacts, bucket, created, doubtful>>
        /\ objects \subseteq objects'
        /\ (a \in objects' /\ GoTo(a, "commit")) \/ GoTo(a, "failed")
    BY <1>3 DEF Put
  <2>2. CASE a \in objects' /\ GoTo(a, "commit")
    BY <2>1, <2>2, GoToStep DEF UploadInv, UploadsAreStored, AtStep, UploadSteps
  <2>3. CASE GoTo(a, "failed")
    BY <2>1, <2>3, GoToStep DEF UploadInv, UploadsAreStored, AtStep, UploadSteps
  <2> QED BY <2>1, <2>2, <2>3
<1>4. CASE CommitArtifact(a, known)
  <2>1. /\ AtStep(a, "commit") /\ UNCHANGED <<objects, bucket>> /\ a \in objects
        /\ artifacts' = artifacts \cup {Row(a)} /\ Row(a).id = a
    BY <1>4 DEF CommitArtifact, UploadInv, Row
  <2>2. CASE created' = created \cup {a} /\ GoTo(a, "done") /\ UNCHANGED doubtful
    BY <2>1, <2>2, GoToStep DEF UploadInv, UploadsAreStored, AtStep, UploadSteps
  <2>3. CASE doubtful' = doubtful \cup {a} /\ GoTo(a, "delete") /\ UNCHANGED created
    BY <2>1, <2>3, GoToStep DEF UploadInv, UploadsAreStored, AtStep, UploadSteps
  <2> QED BY <1>4, <2>2, <2>3 DEF CommitArtifact
<1>5. CASE CommitFails(a)
  <2>1. AtStep(a, "commit") /\ GoTo(a, "delete")
        /\ UNCHANGED <<artifacts, objects, bucket, created, doubtful>>
    BY <1>5 DEF CommitFails
  <2> QED BY <2>1, GoToStep DEF UploadInv, UploadsAreStored, AtStep, UploadSteps
<1>6. CASE DeleteObject(a)
  <2>1. /\ AtStep(a, "delete") /\ GoTo(a, "failed")
        /\ objects' \in {objects, objects \ {a}}
        /\ UNCHANGED <<artifacts, bucket, created, doubtful>>
    BY <1>6 DEF DeleteObject
  <2> QED BY <2>1, GoToStep DEF UploadInv, UploadsAreStored, AtStep, UploadSteps
<1>7. CASE Vanish(a)
  <2>1. /\ GoTo(a, "failed") /\ ~AtStep(a, "done")
        /\ UNCHANGED <<artifacts, objects, bucket, created, doubtful>>
    BY <1>7 DEF Vanish, AtStep
  <2> QED BY <2>1, GoToStep DEF UploadInv, UploadsAreStored, AtStep, UploadSteps
<1> QED BY <1>1, <1>2, <1>3, <1>4, <1>5, <1>6, <1>7

RequestsInv == SignInInv /\ UploadInv

\* A step before a commit keeps SignInInv.
LEMMA SignInStepInv == SignInInv /\ SignInStep => SignInInv'
<1> SUFFICES ASSUME SignInInv, SignInStep PROVE SignInInv'
  OBVIOUS
<1>1. ASSUME NEW c \in Clients, Rollback(c) PROVE SignInInv'
  BY <1>1, RollbackInv DEF Rollback
<1> QED
  BY <1>1, SelectUserInv, InsertUserInv, EnsureWorkspaceInv, BeginResetInv, FindRowsInv, SeedInv,
     ExpireInv DEF SignInStep

\* A step keeps RequestsInv: a commit removes rows of artifacts, nothing else.
LEMMA RequestsStep == RequestsInv /\ [RequestsNext]_requestVars => RequestsInv'
<1> SUFFICES ASSUME RequestsInv, [RequestsNext]_requestVars PROVE RequestsInv'
  OBVIOUS
<1>1. ASSUME UNCHANGED uploadVars PROVE UploadInv'
  BY <1>1 DEF uploadVars, RequestsInv, UploadInv, UploadsAreStored, AtStep
<1>2. ASSUME UNCHANGED signInVars PROVE SignInInv'
  BY <1>2 DEF signInVars, RequestsInv, SignInInv, SignInTyped, OwnersExist, TxnsAreSound,
              NewEmailsDiffer, IsNew, OneWorkspacePerUser
<1>3. CASE SignInStep /\ UNCHANGED uploadVars
  BY <1>1, <1>3, SignInStepInv DEF RequestsInv
<1>4. ASSUME NEW c \in Clients, CommitWithCascade(c) PROVE RequestsInv'
  <2>1. SignInInv'
    BY <1>4, CommitInv DEF CommitWithCascade, RequestsInv
  <2>2. artifacts' \subseteq artifacts /\ UNCHANGED <<objects, bucket, upload, created, doubtful>>
    BY <1>4 DEF CommitWithCascade, Cascade
  <2>3. UploadInv'
    BY <2>2 DEF RequestsInv, UploadInv, UploadsAreStored, AtStep
  <2> QED BY <2>1, <2>3 DEF RequestsInv
<1>5. CASE BeginUpload
  <2>1. PICK a \in Artifacts, w \in workspaces : Accept(a, w)
    BY <1>5 DEF BeginUpload
  <2>2. w \in WorkspaceRows /\ UNCHANGED signInVars
    BY <1>5 DEF BeginUpload, RequestsInv, SignInInv, SignInTyped
  <2>3. /\ upload' \in [Artifacts -> [step : UploadSteps, workspace : WorkspaceRows \cup {NoWorkspace}]]
        /\ upload'[a].step = "bucket" /\ upload[a].step = "new"
        /\ \A b \in Artifacts \ {a} : upload'[b] = upload[b]
        /\ UNCHANGED <<artifacts, objects, bucket, created, doubtful>>
    BY <2>1, <2>2 DEF Accept, RequestsInv, UploadInv, UploadSteps, NoUpload
  <2>4. UploadInv'
    BY <2>3 DEF RequestsInv, UploadInv, UploadsAreStored, AtStep
  <2> QED BY <1>2, <2>2, <2>4 DEF RequestsInv
<1>6. CASE UploadStep(Undisturbed) /\ UNCHANGED signInVars
  BY <1>2, <1>6, UploadStepInv DEF RequestsInv
<1>7. CASE UNCHANGED requestVars
  BY <1>1, <1>2, <1>7 DEF requestVars, RequestsInv
<1> QED BY <1>3, <1>4, <1>5, <1>6, <1>7 DEF RequestsNext

\* RequestsInv holds initially.
LEMMA RequestsInitially == RequestsInit => RequestsInv
BY SignInInitially, UploadInitially DEF RequestsInit, RequestsInv

(***************************************************************************)
(* However many requests sign in at once, and while one client resets, a   *)
(* user has exactly one workspace (ensure_user, ensure_workspace,          *)
(* reset_and_seed_browser_fixture).                                        *)
(***************************************************************************)
THEOREM OneWorkspace == RequestsSpec => []OneWorkspacePerUser
<1>1. RequestsInv => OneWorkspacePerUser
  BY DEF RequestsInv, SignInInv
<1> QED BY <1>1, RequestsInitially, RequestsStep, PTL DEF RequestsSpec

(***************************************************************************)
(* The bytes of an acknowledged upload stay, and a row has its bytes       *)
(* unless its commit was not answered (upload_source, _persist_artifact).  *)
(***************************************************************************)
THEOREM StoredUploads == RequestsSpec => []UploadsAreStored
<1>1. RequestsInv => UploadsAreStored
  BY DEF RequestsInv, UploadInv
<1> QED BY <1>1, RequestsInitially, RequestsStep, PTL DEF RequestsSpec
-----------------------------------------------------------------------------
(***************************************************************************)
(* The OAuth callbacks: a state waits at one process or belongs to one     *)
(* callback, so its code is exchanged once.                                *)
(***************************************************************************)
Grants == [workspace : SUBSET Workspaces, mode : Modes, expires : Nat]

CallbackStates ==
    {NoCallback} \cup [step : {"exchange"}, process : Processes, state : OAuthStates]
    \cup [step : {"select", "insert", "update"}, process : Processes, state : OAuthStates,
          scopes : SUBSET AllScopes]

ConnectionsTyped ==
    /\ clock \in Nat
    /\ states \in [Processes -> SUBSET OAuthStates]
    /\ grant \in [OAuthStates -> Grants]
    /\ callback \in [Callbacks -> CallbackStates]
    /\ exchanges \in [OAuthStates -> Nat]

\* A state that waits at a process has never left it.
WaitingStatesAreFresh ==
    \A p \in Processes : \A s \in states[p] :
        /\ grant[s] # NotIssued /\ exchanges[s] = 0
        /\ \A q \in Processes \ {p} : s \notin states[q]
        /\ \A c \in Callbacks : callback[c] # NoCallback => callback[c].state # s

\* A callback has a state to itself, and has exchanged its code once or not yet.
CallbacksOwnStates ==
    \A c \in Callbacks : callback[c] # NoCallback =>
        LET s == callback[c].state
        IN  /\ grant[s] # NotIssued
            /\ \A d \in Callbacks \ {c} : callback[d] # NoCallback => callback[d].state # s
            /\ IF callback[c].step = "exchange"
               THEN exchanges[s] = 0
               ELSE exchanges[s] = 1 /\ ConfiguredScopes(grant[s].mode) \subseteq callback[c].scopes

UnissuedAreUnused == \A s \in OAuthStates : grant[s] = NotIssued => exchanges[s] = 0

ConnectionInv ==
    /\ ConnectionsTyped
    /\ WaitingStatesAreFresh
    /\ CallbacksOwnStates
    /\ UnissuedAreUnused
    /\ ConnectionsAreGranted

\* ConnectionInv holds before a state is issued.
LEMMA ConnectionInitially == ConnectionInit => ConnectionInv
BY DEF ConnectionInit, ConnectionInv, ConnectionsTyped, WaitingStatesAreFresh, CallbacksOwnStates,
       UnissuedAreUnused, ConnectionsAreGranted, Grants, CallbackStates, NotIssued, Modes

\* What a callback that has begun knows.
LEMMA CallbackFields ==
    ASSUME ConnectionInv, NEW c \in Callbacks, callback[c] # NoCallback
    PROVE  /\ callback[c].state \in OAuthStates /\ callback[c].process \in Processes
           /\ grant[callback[c].state] \in Grants
           /\ callback[c].step \in {"exchange", "select", "insert", "update"}
           /\ callback[c].step # "exchange" => callback[c].scopes \in SUBSET AllScopes
BY DEF ConnectionInv, ConnectionsTyped, CallbackStates

\* A state is issued.
LEMMA CreateKeepsInv ==
    ASSUME ConnectionInv, NEW p \in Processes, NEW s \in OAuthStates, NEW w \in Workspaces,
           NEW mode \in Modes, CreateConnection(p, s, w, mode)
    PROVE  ConnectionInv'
<1> DEFINE new == [workspace |-> {w}, mode |-> mode, expires |-> clock + Ttl]
<1>1. /\ grant[s] = NotIssued /\ grant' = [grant EXCEPT ![s] = new]
      /\ UNCHANGED <<clock, callback, exchanges, connections>>
      /\ states' = [states EXCEPT ![p] = {t \in @ : grant[t].expires > clock} \cup {s}]
  BY DEF CreateConnection
<1>2. /\ new \in Grants /\ new # NotIssued
  BY ConnectionAssumption DEF Grants, NotIssued, ConnectionInv, ConnectionsTyped
<1> HIDE DEF new
<1>3. /\ \A q \in Processes : states'[q] \subseteq states[q] \cup (IF q = p THEN {s} ELSE {})
      /\ states' \in [Processes -> SUBSET OAuthStates]
  BY <1>1 DEF ConnectionInv, ConnectionsTyped
<1>4. /\ grant' \in [OAuthStates -> Grants] /\ grant'[s] = new
      /\ \A t \in OAuthStates \ {s} : grant'[t] = grant[t]
  BY <1>1, <1>2 DEF ConnectionInv, ConnectionsTyped
<1>5. /\ exchanges[s] = 0
      /\ \A q \in Processes : s \notin states[q]
      /\ \A c \in Callbacks : callback[c] # NoCallback => callback[c].state # s
  BY <1>1 DEF ConnectionInv, UnissuedAreUnused, WaitingStatesAreFresh, CallbacksOwnStates
<1>6. ConnectionsTyped'
  BY <1>1, <1>3, <1>4 DEF ConnectionInv, ConnectionsTyped
<1>7. WaitingStatesAreFresh'
  <2> SUFFICES ASSUME NEW q \in Processes, NEW t \in states'[q]
               PROVE  /\ grant'[t] # NotIssued /\ exchanges[t] = 0
                      /\ \A r \in Processes \ {q} : t \notin states'[r]
                      /\ \A c \in Callbacks : callback[c] # NoCallback => callback[c].state # t
    BY <1>1 DEF WaitingStatesAreFresh
  <2>1. CASE t = s
    BY <1>2, <1>3, <1>4, <1>5, <2>1
  <2>2. CASE t # s
    <3>1. t \in states[q] /\ t \in OAuthStates
      BY <1>3, <2>2
    <3> QED BY <1>3, <1>4, <2>2, <3>1 DEF ConnectionInv, WaitingStatesAreFresh
  <2> QED BY <2>1, <2>2
<1>8. CallbacksOwnStates'
  <2> SUFFICES ASSUME NEW c \in Callbacks, callback[c] # NoCallback
               PROVE  CallbacksOwnStates!(c)'
    BY <1>1 DEF CallbacksOwnStates
  <2>1. grant'[callback[c].state] = grant[callback[c].state]
    BY <1>4, <1>5, CallbackFields
  <2> QED BY <1>1, <2>1 DEF ConnectionInv, CallbacksOwnStates
<1>9. UnissuedAreUnused'
  BY <1>1, <1>2, <1>4 DEF ConnectionInv, UnissuedAreUnused
<1>10. ConnectionsAreGranted'
  <2>1. \A t \in OAuthStates : exchanges[t] = 1 => grant'[t] = grant[t]
    BY <1>4, <1>5
  <2> QED BY <1>1, <2>1 DEF ConnectionInv, ConnectionsAreGranted
<1> QED BY <1>6, <1>7, <1>8, <1>9, <1>10 DEF ConnectionInv

\* Steps that issue nothing, exchange nothing and store nothing: what is left of the
\* states and the callbacks is as it was, or has moved to one callback.
LEMMA QuietKeepsInv ==
    ASSUME ConnectionInv, UNCHANGED <<grant, exchanges, connections>>, clock' \in Nat,
           states' \in [Processes -> SUBSET OAuthStates],
           callback' \in [Callbacks -> CallbackStates],
           \A p \in Processes : states'[p] \subseteq states[p],
           \A c \in Callbacks :
              \/ callback'[c] = NoCallback
              \/ /\ callback[c] # NoCallback /\ callback'[c].state = callback[c].state
                 /\ IF callback[c].step = "exchange" THEN callback'[c].step = "exchange"
                    ELSE /\ callback'[c].step # "exchange"
                         /\ callback'[c].scopes = callback[c].scopes
    PROVE  ConnectionInv'
<1>1. ConnectionsTyped'
  BY DEF ConnectionInv, ConnectionsTyped
<1>2. WaitingStatesAreFresh'
  BY DEF ConnectionInv, WaitingStatesAreFresh
<1>3. CallbacksOwnStates'
  BY DEF ConnectionInv, CallbacksOwnStates
<1>4. UnissuedAreUnused' /\ ConnectionsAreGranted'
  BY DEF ConnectionInv, UnissuedAreUnused, ConnectionsAreGranted
<1> QED BY <1>1, <1>2, <1>3, <1>4 DEF ConnectionInv

\* A callback takes its state out of the process it reaches.
LEMMA ReceiveKeepsInv ==
    ASSUME ConnectionInv, NEW c \in Callbacks, NEW p \in Processes, NEW s \in OAuthStates,
           ReceiveCallback(c, p, s)
    PROVE  ConnectionInv'
<1> DEFINE new == [step |-> "exchange", process |-> p, state |-> s]
<1>1. /\ states' = [states EXCEPT ![p] = states[p] \ {s}]
      /\ UNCHANGED <<clock, grant, exchanges, connections>>
      /\ callback[c] = NoCallback
  BY DEF ReceiveCallback, Consumed
<1>2. /\ states' \in [Processes -> SUBSET OAuthStates]
      /\ \A q \in Processes : states'[q] \subseteq states[q]
      /\ s \notin states'[p]
  BY <1>1 DEF ConnectionInv, ConnectionsTyped
<1>3. CASE callback' = callback
  <2>1. \A d \in Callbacks : callback'[d] = NoCallback \/
           (callback[d] # NoCallback /\ callback'[d] = callback[d])
    BY <1>3
  <2> QED BY <1>1, <1>2, <1>3, <2>1, QuietKeepsInv DEF ConnectionInv, ConnectionsTyped
<1>4. CASE s \in states[p] /\ callback' = [callback EXCEPT ![c] = new]
  <2>1. /\ grant[s] # NotIssued /\ exchanges[s] = 0
        /\ \A q \in Processes \ {p} : s \notin states[q]
        /\ \A d \in Callbacks : callback[d] # NoCallback => callback[d].state # s
    BY <1>4 DEF ConnectionInv, WaitingStatesAreFresh
  <2>2. /\ new \in CallbackStates /\ new.state = s /\ new.step = "exchange"
    BY DEF CallbackStates
  <2> HIDE DEF new
  <2>3. /\ callback' \in [Callbacks -> CallbackStates] /\ callback'[c] = new
        /\ \A d \in Callbacks \ {c} : callback'[d] = callback[d]
    BY <1>4, <2>2 DEF ConnectionInv, ConnectionsTyped
  <2>4. ConnectionsTyped'
    BY <1>1, <1>2, <2>3 DEF ConnectionInv, ConnectionsTyped
  <2>5. WaitingStatesAreFresh'
    <3> SUFFICES ASSUME NEW q \in Processes, NEW t \in states'[q]
                 PROVE  WaitingStatesAreFresh!(q)!(t)'
      BY DEF WaitingStatesAreFresh
    <3>1. t \in states[q] /\ t # s
      BY <1>2, <2>1
    <3> QED BY <1>1, <1>2, <2>2, <2>3, <3>1 DEF ConnectionInv, WaitingStatesAreFresh
  <2>6. CallbacksOwnStates'
    <3> SUFFICES ASSUME NEW d \in Callbacks, callback'[d] # NoCallback
                 PROVE  CallbacksOwnStates!(d)'
      BY DEF CallbacksOwnStates
    <3>1. CASE d = c
      BY <1>1, <2>1, <2>2, <2>3, <3>1
    <3>2. CASE d # c
      BY <1>1, <2>1, <2>2, <2>3, <3>2 DEF ConnectionInv, CallbacksOwnStates
    <3> QED BY <3>1, <3>2
  <2>7. UnissuedAreUnused' /\ ConnectionsAreGranted'
    BY <1>1 DEF ConnectionInv, UnissuedAreUnused, ConnectionsAreGranted
  <2> QED BY <2>4, <2>5, <2>6, <2>7 DEF ConnectionInv
<1> QED BY <1>3, <1>4 DEF ReceiveCallback, IsValid

\* A code is exchanged, for the first time.
LEMMA ExchangeKeepsInv ==
    ASSUME ConnectionInv, NEW c \in Callbacks, Exchange(c)
    PROVE  ConnectionInv'
<1> DEFINE s == callback[c].state
<1>1. PICK scopes \in SUBSET AllScopes :
         callback' = [callback EXCEPT ![c] =
             IF ConfiguredScopes(grant[s].mode) \subseteq scopes
             THEN [step |-> "select", process |-> callback[c].process, state |-> s, scopes |-> scopes]
             ELSE NoCallback]
  BY DEF Exchange
<1>2. /\ callback[c].step = "exchange" /\ UNCHANGED <<clock, states, grant, connections>>
      /\ exchanges' = [exchanges EXCEPT ![s] = @ + 1]
  BY DEF Exchange
<1>3. callback[c] # NoCallback
  BY <1>2 DEF NoCallback
<1>4. s \in OAuthStates /\ callback[c].process \in Processes
  BY <1>3, CallbackFields
<1>5. /\ grant[s] # NotIssued /\ exchanges[s] = 0
      /\ \A d \in Callbacks \ {c} : callback[d] # NoCallback => callback[d].state # s
  BY <1>2, <1>3 DEF ConnectionInv, CallbacksOwnStates
<1>6. \A p \in Processes : s \notin states[p]
  BY <1>3 DEF ConnectionInv, WaitingStatesAreFresh
<1> DEFINE new == [step |-> "select", process |-> callback[c].process, state |-> s, scopes |-> scopes]
<1>7. /\ new \in CallbackStates /\ new.state = s /\ new.step = "select" /\ new.scopes = scopes
      /\ NoCallback \in CallbackStates
  BY <1>4 DEF CallbackStates
<1>8. /\ exchanges' \in [OAuthStates -> Nat] /\ exchanges'[s] = 1
      /\ \A t \in OAuthStates \ {s} : exchanges'[t] = exchanges[t]
  BY <1>2, <1>4, <1>5 DEF ConnectionInv, ConnectionsTyped
<1>9. /\ callback' \in [Callbacks -> CallbackStates]
      /\ callback'[c] = NoCallback \/
            (callback'[c] = new /\ ConfiguredScopes(grant[s].mode) \subseteq scopes)
      /\ \A d \in Callbacks \ {c} : callback'[d] = callback[d]
  BY <1>1, <1>7 DEF ConnectionInv, ConnectionsTyped
<1> HIDE DEF new, s
<1>10. ConnectionsTyped'
  BY <1>2, <1>8, <1>9 DEF ConnectionInv, ConnectionsTyped
<1>11. WaitingStatesAreFresh'
  <2> SUFFICES ASSUME NEW q \in Processes, NEW t \in states[q]
               PROVE  WaitingStatesAreFresh!(q)!(t)'
    BY <1>2 DEF WaitingStatesAreFresh
  <2>1. t # s /\ t \in OAuthStates
    BY <1>6 DEF ConnectionInv, ConnectionsTyped
  <2> QED BY <1>2, <1>7, <1>8, <1>9, <2>1 DEF ConnectionInv, WaitingStatesAreFresh
<1>12. CallbacksOwnStates'
  <2> SUFFICES ASSUME NEW d \in Callbacks, callback'[d] # NoCallback
               PROVE  CallbacksOwnStates!(d)'
    BY DEF CallbacksOwnStates
  <2>1. CASE d = c
    BY <1>2, <1>5, <1>7, <1>8, <1>9, <2>1
  <2>2. CASE d # c
    <3>1. callback'[d] = callback[d] /\ callback[d].state # s /\ callback[d].state \in OAuthStates
      BY <1>5, <1>9, <2>2, CallbackFields
    <3> QED BY <1>2, <1>7, <1>8, <1>9, <2>2, <3>1 DEF ConnectionInv, CallbacksOwnStates
  <2> QED BY <2>1, <2>2
<1>13. UnissuedAreUnused'
  BY <1>2, <1>5, <1>8 DEF ConnectionInv, UnissuedAreUnused
<1>14. ConnectionsAreGranted'
  <2>1. \A t \in OAuthStates : exchanges[t] = 1 => exchanges'[t] = 1
    BY <1>5, <1>8
  <2>2. \A t \in OAuthStates : exchanges'[t] <= 1
    BY <1>8 DEF ConnectionInv, ConnectionsAreGranted
  <2> QED BY <1>2, <2>1, <2>2 DEF ConnectionInv, ConnectionsAreGranted
<1> QED BY <1>10, <1>11, <1>12, <1>13, <1>14 DEF ConnectionInv

\* What was granted is stored in place of what the workspace had.
LEMMA SaveKeepsInv ==
    ASSUME ConnectionInv, NEW c \in Callbacks, SaveConnection(c)
    PROVE  ConnectionInv'
<1> DEFINE s == callback[c].state
           row == Granted(c)
<1>1. /\ callback[c] # NoCallback /\ callback[c].step \in {"insert", "update"}
      /\ UNCHANGED <<clock, states, grant, exchanges>>
      /\ callback' = [callback EXCEPT ![c] = NoCallback]
  BY DEF SaveConnection, NoCallback
<1>2. /\ s \in OAuthStates /\ exchanges[s] = 1
      /\ ConfiguredScopes(grant[s].mode) \subseteq callback[c].scopes
  BY <1>1, CallbackFields DEF ConnectionInv, CallbacksOwnStates
<1>3. /\ row.workspace = grant[s].workspace /\ row.mode = grant[s].mode
      /\ "calendar.readonly" \in row.scopes
      /\ row.mode = "READ_WRITE" => "calendar.events" \in row.scopes
  BY <1>2 DEF Granted, ConfiguredScopes, AllScopes
<1>4. \/ connections' = connections
      \/ /\ connections' = (connections \ StoredFor(c)) \cup {row}
         /\ \A other \in connections' : other.workspace = row.workspace => other = row
  BY DEF SaveConnection, StoredFor, Granted
<1>5. ConnectionsAreGranted'
  <2>1. CASE connections' = connections
    BY <1>1, <2>1 DEF ConnectionInv, ConnectionsAreGranted
  <2>2. CASE /\ connections' = (connections \ StoredFor(c)) \cup {row}
             /\ \A other \in connections' : other.workspace = row.workspace => other = row
    <3> HIDE DEF row, s
    <3> QED BY <1>1, <1>2, <1>3, <2>2 DEF ConnectionInv, ConnectionsAreGranted
  <2> QED BY <1>4, <2>1, <2>2
<1>6. ConnectionsTyped'
  BY <1>1 DEF ConnectionInv, ConnectionsTyped, CallbackStates
<1>7. WaitingStatesAreFresh' /\ CallbacksOwnStates' /\ UnissuedAreUnused'
  <2>1. \A d \in Callbacks : callback'[d] # NoCallback => callback'[d] = callback[d] /\ d # c
    BY <1>1 DEF ConnectionInv, ConnectionsTyped
  <2> QED BY <1>1, <2>1
          DEF ConnectionInv, WaitingStatesAreFresh, CallbacksOwnStates, UnissuedAreUnused
<1> QED BY <1>5, <1>6, <1>7 DEF ConnectionInv

\* A step keeps ConnectionInv.
LEMMA ConnectionStep == ConnectionInv /\ [ConnectionNext]_connectionVars => ConnectionInv'
<1> SUFFICES ASSUME ConnectionInv, [ConnectionNext]_connectionVars PROVE ConnectionInv'
  OBVIOUS
<1>1. /\ clock \in Nat /\ states \in [Processes -> SUBSET OAuthStates]
      /\ callback \in [Callbacks -> CallbackStates]
  BY DEF ConnectionInv, ConnectionsTyped
<1>2. CASE PassTime \/ UNCHANGED connectionVars
  <2>1. clock' \in Nat /\ UNCHANGED <<states, callback, grant, exchanges, connections>>
    BY <1>1, <1>2 DEF PassTime, connectionVars
  <2>2. \A c \in Callbacks : callback'[c] = NoCallback \/
           (callback[c] # NoCallback /\ callback'[c] = callback[c])
    BY <2>1
  <2> QED BY <1>1, <2>1, <2>2, QuietKeepsInv
<1>3. ASSUME NEW c \in Callbacks, SelectConnection(c) PROVE ConnectionInv'
  <2> DEFINE next == IF StoredFor(c) = {} THEN "insert" ELSE "update"
  <2>1. /\ callback[c].step = "select" /\ callback' = [callback EXCEPT ![c].step = next]
        /\ UNCHANGED <<clock, states, grant, exchanges, connections>>
    BY <1>3 DEF SelectConnection
  <2>2. callback[c] # NoCallback /\ next \in {"insert", "update"}
    BY <2>1 DEF NoCallback
  <2> HIDE DEF next
  <2>3. callback[c] \in [step : {"select", "insert", "update"}, process : Processes,
                         state : OAuthStates, scopes : SUBSET AllScopes]
    BY <1>1, <2>1, <2>2 DEF CallbackStates
  <2>4. /\ callback' \in [Callbacks -> CallbackStates]
        /\ callback'[c].state = callback[c].state /\ callback'[c].step = next
        /\ callback'[c].scopes = callback[c].scopes
        /\ \A d \in Callbacks \ {c} : callback'[d] = callback[d]
    BY <1>1, <2>1, <2>2, <2>3 DEF CallbackStates
  <2>5. \A d \in Callbacks :
           \/ callback'[d] = NoCallback
           \/ /\ callback[d] # NoCallback /\ callback'[d].state = callback[d].state
              /\ IF callback[d].step = "exchange" THEN callback'[d].step = "exchange"
                 ELSE /\ callback'[d].step # "exchange"
                      /\ callback'[d].scopes = callback[d].scopes
    BY <2>1, <2>2, <2>4
  <2> QED BY <1>1, <2>1, <2>4, <2>5, QuietKeepsInv
<1>4. ASSUME NEW c \in Callbacks, CallbackFails(c) PROVE ConnectionInv'
  <2>1. /\ callback' \in [Callbacks -> CallbackStates]
        /\ \A d \in Callbacks : callback'[d] = NoCallback \/
              (callback[d] # NoCallback /\ callback'[d] = callback[d])
    BY <1>1, <1>4 DEF CallbackFails, CallbackStates
  <2> QED BY <1>1, <1>4, <2>1, QuietKeepsInv DEF CallbackFails
<1>5. ASSUME NEW p \in Processes, ProcessRestarts(p) PROVE ConnectionInv'
  <2>1. /\ callback' \in [Callbacks -> CallbackStates]
        /\ \A d \in Callbacks : callback'[d] = NoCallback \/
              (callback[d] # NoCallback /\ callback'[d] = callback[d])
    BY <1>1, <1>5 DEF ProcessRestarts, CallbackStates
  <2>2. /\ states' \in [Processes -> SUBSET OAuthStates]
        /\ \A q \in Processes : states'[q] \subseteq states[q]
    BY <1>1, <1>5 DEF ProcessRestarts
  <2> QED BY <1>1, <1>5, <2>1, <2>2, QuietKeepsInv DEF ProcessRestarts
<1> QED BY <1>2, <1>3, <1>4, <1>5, CreateKeepsInv, ReceiveKeepsInv, ExchangeKeepsInv, SaveKeepsInv
        DEF ConnectionNext

\* However callbacks race, repeat, expire or are cut off, a code is exchanged once per
\* state and a connection has the mode and scopes it was granted (oauth_callback).
THEOREM ConnectionsGranted == ConnectionSpec => []ConnectionsAreGranted
<1>1. ConnectionInv => ConnectionsAreGranted
  BY DEF ConnectionInv
<1> QED BY <1>1, ConnectionInitially, ConnectionStep, PTL DEF ConnectionSpec
-----------------------------------------------------------------------------
(***************************************************************************)
(* The agent's actions: a command under execution has a record, and what   *)
(* counts as executed is there.                                            *)
(***************************************************************************)
RecordRows == [key : IdempotencyKeys \cup {Nothing},
               status : {"ABSENT", "PENDING", "SUCCEEDED", "FAILED"}, event : BOOLEAN]

Handlings ==
    {NoHandling} \cup [step : {"execute"}, command : Commands, authorized : {TRUE}]
    \cup [step : {"verify"}, command : Commands, authorized : {TRUE}, event : BOOLEAN]

Reports ==
    [status : {"NONE", "SUCCEEDED", "FAILED"}, executed : {FALSE}, authorized : BOOLEAN,
     command : Commands \cup {Nothing}]
    \cup [status : {"SUCCEEDED"}, executed : {TRUE}, authorized : {TRUE}, command : Commands]

AgentTyped ==
    /\ records \in [Commands -> RecordRows]
    /\ call \in [Requesters -> Handlings]
    /\ report \in [Requesters -> Reports]

\* A command under execution has a record.
CallsAreKnown ==
    \A c \in Requesters : call[c] # NoHandling => records[call[c].command].status # "ABSENT"

RecordsAreWhole == \A r \in Commands : records[r].status = "ABSENT" => records[r] = NoRecord

AgentInv == AgentTyped /\ CallsAreKnown /\ RecordsAreWhole /\ ActionsAreReal

\* AgentInv holds before a command is recorded.
LEMMA AgentInitially == AgentInit => AgentInv
BY DEF AgentInit, AgentInv, AgentTyped, CallsAreKnown, RecordsAreWhole, ActionsAreReal, RecordRows, Handlings,
       Reports, NoRecord, NoHandling, NoReport

\* What the records and the provider never take back.
RecordsGrow ==
    /\ effects \subseteq effects'
    /\ \A r \in Commands :
          /\ records[r].status # "ABSENT" =>
                records'[r].status # "ABSENT" /\ records'[r].key = records[r].key
          /\ records[r].event => records'[r].event
          /\ records'[r].status = "ABSENT" => records'[r] = NoRecord
          /\ records'[r].status = "SUCCEEDED" => records'[r].event
          /\ records'[r].event => records'[r].key \in effects'

\* A call that does not move, or ends, or goes on with a command on record is
\* still known.
LEMMA GrowthKeepsKnown ==
    ASSUME AgentInv, RecordsGrow, AgentTyped',
           \A c \in Requesters :
              \/ call'[c] = call[c]
              \/ call'[c] = NoHandling
              \/ records[call'[c].command].status # "ABSENT",
           \A c \in Requesters :
              \/ report'[c] = report[c]
              \/ report'[c].executed =>
                    records'[report'[c].command].event
    PROVE  AgentInv'
<1>1. CallsAreKnown'
  <2> SUFFICES ASSUME NEW c \in Requesters, call'[c] # NoHandling
               PROVE  records'[call'[c].command].status # "ABSENT"
    BY DEF CallsAreKnown
  <2>1. call'[c].command \in Commands
    BY DEF AgentTyped, Handlings
  <2>2. records[call'[c].command].status # "ABSENT"
    BY DEF AgentInv, CallsAreKnown
  <2> QED BY <2>1, <2>2 DEF RecordsGrow
<1>2. ActionsAreReal'
  <2>1. ASSUME NEW c \in Requesters, report'[c].executed
        PROVE  records'[report'[c].command].event
    <3>1. CASE report'[c] = report[c]
      <4>1. report[c].command \in Commands /\ records[report[c].command].event
        BY <2>1, <3>1 DEF AgentInv, AgentTyped, Reports, ActionsAreReal
      <4> QED BY <3>1, <4>1 DEF RecordsGrow
    <3>2. CASE report'[c] # report[c]
      BY <2>1, <3>2
    <3> QED BY <3>1, <3>2
  <2> QED BY <2>1 DEF ActionsAreReal, RecordsGrow
<1>3. RecordsAreWhole'
  BY DEF RecordsAreWhole, RecordsGrow
<1> QED BY <1>1, <1>2, <1>3 DEF AgentInv

\* Records that rest are taken back nothing.
LEMMA RestingRecordsGrow ==
    ASSUME AgentInv, UNCHANGED records, effects \subseteq effects'
    PROVE  RecordsGrow
BY DEF AgentInv, ActionsAreReal, AgentTyped, RecordsGrow, RecordRows, RecordsAreWhole

\* What executes an approved action.
LEMMA HandleApprovedInv ==
    ASSUME AgentInv, NEW c \in Requesters, NEW intent \in Intents, NEW approved \in Commands,
           HandleApproved(c, intent, approved)
    PROVE  AgentInv'
<1>1. ReviewLevel(intent, TRUE) # "AUTO_OK"
  BY DEF ReviewLevel
<1>2. /\ records \in [Commands -> RecordRows] /\ call \in [Requesters -> Handlings]
      /\ report \in [Requesters -> Reports]
  BY DEF AgentInv, AgentTyped
<1>3. CASE /\ records[approved] = NoRecord
           /\ Reported(c, "FAILED", FALSE, TRUE, approved)
           /\ UNCHANGED <<records, call, effects>>
  <2>1. RecordsGrow
    BY <1>3, RestingRecordsGrow
  <2>2. AgentTyped'
    BY <1>2, <1>3 DEF AgentTyped, Reported, Reports
  <2>3. \A d \in Requesters : report'[d] = report[d] \/ ~report'[d].executed
    BY <1>2, <1>3 DEF Reported
  <2>4. \A d \in Requesters : call'[d] = call[d]
    BY <1>3
  <2> QED BY <2>1, <2>2, <2>3, <2>4, GrowthKeepsKnown
<1>4. ASSUME records[approved] # NoRecord, NEW existing \in Successes(approved),
             records' = Linked(approved, existing),
             Reported(c, "SUCCEEDED", TRUE, TRUE, approved), UNCHANGED <<call, effects>>
      PROVE  AgentInv'
  <2>1. /\ existing \in Commands /\ records[existing].key = records[approved].key
        /\ records[existing].event /\ records[existing].key \in effects
    BY <1>4 DEF Successes, AgentInv, ActionsAreReal
  <2>2. /\ records' \in [Commands -> RecordRows]
        /\ records'[approved].status = "SUCCEEDED" /\ records'[approved].event
        /\ records'[approved].key = records[approved].key
        /\ \A r \in Commands \ {approved} : records'[r] = records[r]
    BY <1>2, <1>4, <2>1 DEF Linked, RecordRows
  <2>3. RecordsGrow
    BY <1>4, <2>1, <2>2 DEF RecordsGrow, AgentInv, ActionsAreReal, RecordsAreWhole
  <2>4. AgentTyped'
    BY <1>2, <1>4, <2>2 DEF AgentTyped, Reported, Reports
  <2>5. \A d \in Requesters : report'[d] = report[d] \/ report'[d].command = approved
    BY <1>2, <1>4 DEF Reported
  <2>6. \A d \in Requesters : call'[d] = call[d]
    BY <1>4
  <2> QED BY <2>2, <2>3, <2>4, <2>5, <2>6, GrowthKeepsKnown
<1>5. CASE /\ records[approved] # NoRecord
           /\ call' = [call EXCEPT ![c] = [step |-> "execute", command |-> approved,
                                           authorized |-> TRUE]]
           /\ UNCHANGED <<records, report, effects>>
  <2>1. RecordsGrow
    BY <1>5, RestingRecordsGrow
  <2>2. AgentTyped'
    BY <1>2, <1>5 DEF AgentTyped, Handlings
  <2>3. \A d \in Requesters : report'[d] = report[d]
    BY <1>5
  <2>4. records[approved].status # "ABSENT"
    BY <1>5 DEF AgentInv, RecordsAreWhole
  <2>5. \A d \in Requesters : call'[d] = call[d] \/
            (call'[d].command = approved /\ call'[d].step = "execute")
    BY <1>2, <1>5
  <2> QED BY <2>1, <2>2, <2>3, <2>4, <2>5, GrowthKeepsKnown
<1> QED BY <1>1, <1>3, <1>4, <1>5 DEF HandleApproved

\* What a command under execution knows.
LEMMA HandlingFields ==
    ASSUME AgentInv, NEW c \in Requesters, call[c].step \in {"execute", "verify"}
    PROVE  /\ call[c] # NoHandling /\ call[c].command \in Commands /\ call[c].authorized = TRUE
           /\ records[call[c].command].status # "ABSENT"
           /\ call[c].step = "verify" => call[c].event \in BOOLEAN
<1>1. call[c] # NoHandling
  BY DEF NoHandling
<1>2. call[c] \in Handlings
  BY DEF AgentInv, AgentTyped
<1>3. /\ call[c].command \in Commands /\ call[c].authorized = TRUE
      /\ call[c].step = "verify" => call[c].event \in BOOLEAN
  BY <1>1, <1>2 DEF Handlings
<1> QED BY <1>1, <1>3 DEF AgentInv, CallsAreKnown

\* A call is answered: what was executed is real.
LEMMA AnswerInv ==
    ASSUME AgentInv, NEW c \in Requesters, call[c] # NoHandling, RecordsGrow,
           records' \in [Commands -> RecordRows],
           NEW status \in {"SUCCEEDED", "FAILED"}, NEW executed \in BOOLEAN,
           Answer(c, status, executed), executed => status = "SUCCEEDED",
           executed => records'[call[c].command].event
    PROVE  AgentInv'
<1>1. /\ call \in [Requesters -> Handlings] /\ report \in [Requesters -> Reports]
      /\ call[c].command \in Commands /\ call[c].authorized = TRUE
  BY DEF AgentInv, AgentTyped, Handlings
<1>2. /\ call' = [call EXCEPT ![c] = NoHandling]
      /\ report' = [report EXCEPT ![c] = [status |-> status, executed |-> executed,
                       authorized |-> call[c].authorized, command |-> call[c].command]]
  BY DEF Answer, Reported
<1>3. AgentTyped'
  BY <1>1, <1>2 DEF AgentTyped, Handlings, Reports
<1>4. \A d \in Requesters : call'[d] = call[d] \/ call'[d] = NoHandling
  BY <1>1, <1>2
<1>5. \A d \in Requesters : report'[d] = report[d] \/
         (report'[d].executed => records'[report'[d].command].event)
  BY <1>1, <1>2
<1> QED BY <1>3, <1>4, <1>5, GrowthKeepsKnown

\* The provider answers, with an id or without, for what it has done or not.
LEMMA ProviderAnswersInv ==
    ASSUME AgentInv, NEW c \in Requesters, ProviderAnswers(c)
    PROVE  AgentInv'
<1>1. PICK answered \in BOOLEAN :
         /\ effects' \in {effects, effects \cup {KeyOf(c)}}
         /\ call' = [call EXCEPT ![c] = [step |-> "verify", command |-> @.command,
                                         authorized |-> @.authorized, event |-> answered]]
  BY DEF ProviderAnswers
<1>2. /\ call \in [Requesters -> Handlings] /\ call[c] # NoHandling
      /\ call[c].command \in Commands /\ call[c].authorized = TRUE
      /\ records[call[c].command].status # "ABSENT"
  BY HandlingFields DEF AgentInv, AgentTyped, ProviderAnswers
<1>3. RecordsGrow
  BY <1>1, RestingRecordsGrow DEF ProviderAnswers
<1>4. AgentTyped'
  BY <1>1, <1>2 DEF AgentTyped, Handlings, ProviderAnswers, AgentInv
<1>5. \A d \in Requesters : call'[d] = call[d] \/ records[call'[d].command].status # "ABSENT"
  BY <1>1, <1>2
<1>6. \A d \in Requesters : report'[d] = report[d]
  BY DEF ProviderAnswers
<1> QED BY <1>3, <1>4, <1>5, <1>6, GrowthKeepsKnown

\* What the provider answered is verified and recorded.
LEMMA VerifyInv ==
    ASSUME AgentInv, NEW c \in Requesters, Verify(c)
    PROVE  AgentInv'
<1> DEFINE r == call[c].command
<1>0. UNCHANGED effects
  BY DEF Verify
<1>1. /\ call[c] # NoHandling /\ r \in Commands
      /\ records \in [Commands -> RecordRows] /\ records[r].status # "ABSENT"
  <2>1. call[c].step = "verify"
    BY DEF Verify
  <2>2. call[c] # NoHandling /\ r \in Commands /\ records[r].status # "ABSENT"
    BY <2>1, HandlingFields
  <2> QED BY <2>2 DEF AgentInv, AgentTyped
<1>2. CASE /\ records[r].key \in effects
           /\ records' = [records EXCEPT ![r].status = "SUCCEEDED", ![r].event = TRUE]
           /\ Answer(c, "SUCCEEDED", TRUE)
  <2>1. /\ records' \in [Commands -> RecordRows] /\ records'[r].event
        /\ records'[r].status = "SUCCEEDED" /\ records'[r].key = records[r].key
        /\ \A s \in Commands \ {r} : records'[s] = records[s]
    BY <1>1, <1>2 DEF RecordRows
  <2>2. RecordsGrow
    <3> HIDE DEF r
    <3>1. ASSUME NEW s \in Commands \ {r} PROVE RecordsGrow!2!(s)
      <4>1. records'[s] = records[s] /\ effects' = effects
        BY <1>0, <2>1
      <4>2. /\ records[s].status = "SUCCEEDED" => records[s].event
            /\ records[s].event => records[s].key \in effects
            /\ records[s].status = "ABSENT" => records[s] = NoRecord
        BY DEF AgentInv, ActionsAreReal, RecordsAreWhole
      <4> QED BY <4>1, <4>2
    <3>2. RecordsGrow!2!(r)
      BY <1>0, <1>1, <1>2, <2>1
    <3> QED BY <1>0, <3>1, <3>2 DEF RecordsGrow
  <2> QED BY <1>1, <1>2, <2>1, <2>2, AnswerInv
<1>3. CASE /\ records' = [records EXCEPT ![r].status = "FAILED"]
           /\ Answer(c, "FAILED", FALSE)
  <2>1. /\ records' \in [Commands -> RecordRows] /\ records'[r].event = records[r].event
        /\ records'[r].status = "FAILED" /\ records'[r].key = records[r].key
        /\ \A s \in Commands \ {r} : records'[s] = records[s]
    BY <1>1, <1>3 DEF RecordRows
  <2>2. RecordsGrow
    <3> HIDE DEF r
    <3>1. ASSUME NEW s \in Commands \ {r} PROVE RecordsGrow!2!(s)
      <4>1. records'[s] = records[s] /\ effects' = effects
        BY <1>0, <2>1
      <4>2. /\ records[s].status = "SUCCEEDED" => records[s].event
            /\ records[s].event => records[s].key \in effects
            /\ records[s].status = "ABSENT" => records[s] = NoRecord
        BY DEF AgentInv, ActionsAreReal, RecordsAreWhole
      <4> QED BY <4>1, <4>2
    <3>2. RecordsGrow!2!(r)
      BY <1>0, <1>1, <1>3, <2>1 DEF AgentInv, ActionsAreReal
    <3> QED BY <1>0, <3>1, <3>2 DEF RecordsGrow
  <2> QED BY <1>1, <1>3, <2>1, <2>2, AnswerInv
<1> QED BY <1>1, <1>2, <1>3 DEF Verify, Accepts, KeyOf

\* A step keeps AgentInv.
LEMMA AgentStep == AgentInv /\ [AgentNext]_agentVars => AgentInv'
<1> SUFFICES ASSUME AgentInv, [AgentNext]_agentVars PROVE AgentInv'
  OBVIOUS
<1>1. records \in [Commands -> RecordRows] /\ report \in [Requesters -> Reports]
  BY DEF AgentInv, AgentTyped
<1>2. CASE UNCHANGED <<records, effects, call, report>>
  BY <1>2 DEF AgentInv, AgentTyped, CallsAreKnown, RecordsAreWhole, ActionsAreReal
<1>3. ASSUME NEW r \in Commands, NEW k \in IdempotencyKeys, AddPending(r, k)
      PROVE  AgentInv'
  <2>1. /\ records[r] = NoRecord /\ records' \in [Commands -> RecordRows]
        /\ records'[r].status = "PENDING" /\ ~records'[r].event
        /\ \A s \in Commands \ {r} : records'[s] = records[s]
    BY <1>1, <1>3 DEF AddPending, RecordRows
  <2>2. RecordsGrow
    BY <1>3, <2>1 DEF RecordsGrow, AgentInv, ActionsAreReal, RecordsAreWhole, AddPending, NoRecord
  <2>3. AgentTyped' /\ UNCHANGED <<call, report>>
    BY <1>3, <2>1 DEF AddPending, AgentInv, AgentTyped
  <2> QED BY <2>2, <2>3, GrowthKeepsKnown
<1>4. ASSUME NEW c \in Requesters, NEW intent, NEW proposed, NEW approved \in Commands \cup {Nothing},
             HandleWithoutAction(c, intent, proposed, approved)
      PROVE  AgentInv'
  <2>1. UNCHANGED <<records, effects, call>>
    BY <1>4 DEF HandleWithoutAction
  <2>2. PICK status \in {"SUCCEEDED", "FAILED"}, authorized \in BOOLEAN :
           Reported(c, status, FALSE, authorized, approved)
    BY <1>4 DEF HandleWithoutAction
  <2>3. AgentTyped' /\ \A d \in Requesters : report'[d] = report[d] \/ ~report'[d].executed
    BY <1>1, <2>1, <2>2 DEF Reported, Reports, AgentInv, AgentTyped
  <2>4. RecordsGrow
    BY <2>1, RestingRecordsGrow
  <2> QED BY <2>1, <2>3, <2>4, GrowthKeepsKnown
<1>5. ASSUME NEW c \in Requesters, ProviderTimesOut(c) \/ VerifyRaises(c)
      PROVE  AgentInv'
  <2>1. /\ call[c] # NoHandling /\ UNCHANGED records /\ effects \subseteq effects'
        /\ Answer(c, "FAILED", FALSE)
    <3>1. call[c] # NoHandling
      BY <1>5, HandlingFields DEF ProviderTimesOut, VerifyRaises
    <3> QED BY <1>5, <3>1 DEF ProviderTimesOut, VerifyRaises
  <2> QED BY <1>1, <2>1, RestingRecordsGrow, AnswerInv
<1> QED BY <1>2, <1>3, <1>4, <1>5, HandleApprovedInv, ProviderAnswersInv, VerifyInv
        DEF AgentNext, SetExternalExecutor, agentVars

\* An action is reported as executed only if the provider has its event, whatever
\* it answered (AgentOrchestrator.handle, CalendarCommandExecutor.execute).
THEOREM ActionsReal == AgentSpec => []ActionsAreReal
<1>1. AgentInv => ActionsAreReal
  BY DEF AgentInv
<1> QED BY <1>1, AgentInitially, AgentStep, PTL DEF AgentSpec
-----------------------------------------------------------------------------
(***************************************************************************)
(* One appender's events reach a client that reconnects, each once.        *)
(***************************************************************************)
\* Nothing in the repository appends to one operation twice at once.
OneAppender == IsFiniteSet(Steps) /\ \A a, b \in Appenders : a = b

StreamTyped ==
    /\ sequence \in [Steps -> Nat \cup {-1}]
    /\ counted \in [Appenders -> Nat \cup {-1}]
    /\ cursor \in Nat \cup {-1}
    /\ response \in Seq(Committed)
    /\ received \in Seq(Committed)
    /\ connected \in BOOLEAN

\* Sequences are given once, from zero on, and the next one is the count.
SequencesDiffer ==
    /\ \A e \in Committed : sequence[e] < Cardinality(Committed)
    /\ \A e, f \in Committed : sequence[e] = sequence[f] => e = f
    /\ \A a \in Appenders : counted[a] >= 0 => counted[a] = Cardinality(Committed)
    /\ cursor < Cardinality(Committed)

\* What was received is what lies before the cursor.
CursorIsExact ==
    /\ \A e \in Committed : sequence[e] <= cursor <=> e \in Delivered
    /\ \A i, j \in DOMAIN received : i # j => received[i] # received[j]

\* What is on its way goes on behind the cursor, in order and without a gap.
ResponseGoesOn ==
    /\ \A i \in DOMAIN response : cursor < sequence[response[i]]
    /\ \A i, j \in DOMAIN response : i < j => sequence[response[i]] < sequence[response[j]]
    /\ \A i \in DOMAIN response, e \in Committed :
          cursor < sequence[e] /\ sequence[e] < sequence[response[i]] =>
              \E j \in DOMAIN response : response[j] = e

StreamInv == StreamTyped /\ SequencesDiffer /\ CursorIsExact /\ ResponseGoesOn

\* Nothing is committed and nothing received at first.
LEMMA StreamInitially == OneAppender /\ StreamInit => StreamInv
<1> SUFFICES ASSUME OneAppender, StreamInit PROVE StreamInv
  OBVIOUS
<1>1. Committed = {}
  BY DEF StreamInit, Committed
<1>2. Cardinality(Committed) = 0
  BY <1>1, FS_EmptySet
<1>3. StreamTyped
  <2>1. <<>> \in Seq(Committed)
    OBVIOUS
  <2>2. sequence \in [Steps -> Nat \cup {-1}] /\ counted \in [Appenders -> Nat \cup {-1}]
    BY DEF StreamInit
  <2> QED BY <2>1, <2>2 DEF StreamInit, StreamTyped
<1>4. SequencesDiffer /\ ResponseGoesOn
  BY <1>1, <1>2 DEF StreamInit, SequencesDiffer, ResponseGoesOn
<1>5. CursorIsExact
  BY <1>1 DEF StreamInit, CursorIsExact
<1> QED BY <1>3, <1>4, <1>5 DEF StreamInv

LEMMA CountIsNatural ==
    ASSUME OneAppender PROVE IsFiniteSet(Committed) /\ Cardinality(Committed) \in Nat
BY FS_Subset, FS_CardinalityType DEF OneAppender, Committed

\* The event inserted gets a sequence of its own, behind all others.
LEMMA InsertStep ==
    ASSUME OneAppender, StreamInv, NEW a \in Appenders, NEW e \in Steps, Insert(a, e)
    PROVE  StreamInv'
<1> DEFINE N == Cardinality(Committed)
<1>1. N \in Nat /\ IsFiniteSet(Committed)
  BY CountIsNatural
<1>2. sequence' = [sequence EXCEPT ![e] = N] /\ e \in Steps \ Committed
  BY DEF Insert, StreamInv, SequencesDiffer
<1>3. UNCHANGED <<cursor, response, received, connected>>
  BY DEF Insert, clientVars
<1>4. Committed' = Committed \cup {e}
  <2>1. sequence \in [Steps -> Nat \cup {-1}] /\ e \in Steps
    BY <1>2 DEF StreamInv, StreamTyped
  <2>2. sequence'[e] = N /\ \A f \in Steps \ {e} : sequence'[f] = sequence[f]
    BY <1>2, <2>1
  <2> HIDE DEF N
  <2> QED BY <1>1, <2>1, <2>2 DEF Committed
<1>5. Cardinality(Committed') = N + 1
  BY <1>1, <1>2, <1>4, FS_AddElement
<1>6. \A f \in Committed : sequence'[f] = sequence[f] /\ sequence[f] \in Nat /\ sequence[f] < N
  BY <1>2 DEF Committed, StreamInv, StreamTyped, SequencesDiffer
<1>7. sequence'[e] = N
  BY <1>2 DEF StreamInv, StreamTyped
<1>8. StreamTyped'
  <2>1. sequence' \in [Steps -> Nat \cup {-1}]
    BY <1>1, <1>2 DEF StreamInv, StreamTyped
  <2>2. counted' \in [Appenders -> Nat \cup {-1}]
    BY DEF StreamInv, StreamTyped, Insert
  <2>3. Seq(Committed) \subseteq Seq(Committed')
    BY <1>4
  <2> QED BY <1>3, <2>1, <2>2, <2>3 DEF StreamInv, StreamTyped
<1>9. SequencesDiffer'
  <2>1. \A b \in Appenders : counted'[b] = -1
    BY DEF OneAppender, Insert, StreamInv, StreamTyped
  <2>2. cursor < N /\ cursor \in Int
    BY DEF StreamInv, StreamTyped, SequencesDiffer
  <2>3. \A f, g \in Committed' : sequence'[f] = sequence'[g] => f = g
    BY <1>1, <1>4, <1>6, <1>7 DEF StreamInv, SequencesDiffer
  <2>4. \A f \in Committed' : sequence'[f] < N + 1
    BY <1>1, <1>4, <1>6, <1>7
  <2> QED BY <1>1, <1>3, <1>5, <2>1, <2>2, <2>3, <2>4 DEF SequencesDiffer
<1>10. Delivered \subseteq Committed /\ Delivered' = Delivered
  BY <1>3 DEF Delivered, StreamInv, StreamTyped
<1>11. CursorIsExact'
  <2>1. ~(N <= cursor) /\ e \notin Delivered
    BY <1>1, <1>2, <1>10 DEF StreamInv, StreamTyped, SequencesDiffer
  <2>2. \A f \in Committed' : sequence'[f] <= cursor' <=> f \in Delivered'
    BY <1>3, <1>4, <1>6, <1>7, <1>10, <2>1 DEF StreamInv, CursorIsExact
  <2> QED BY <1>3, <2>2 DEF StreamInv, CursorIsExact
<1>12. ResponseGoesOn'
  <2>1. \A i \in DOMAIN response : response[i] \in Committed
    BY DEF StreamInv, StreamTyped
  <2>2. \A i \in DOMAIN response : sequence'[response[i]] = sequence[response[i]]
                                   /\ sequence[response[i]] < N /\ sequence[response[i]] \in Nat
    BY <1>6, <2>1
  <2> QED BY <1>1, <1>3, <1>4, <1>6, <1>7, <2>2 DEF StreamInv, ResponseGoesOn
<1> QED BY <1>8, <1>9, <1>11, <1>12 DEF StreamInv

\* Any order of a finite set lists all of it.
LEMMA OrdersAreComplete ==
    ASSUME NEW S \in SUBSET Steps, IsFiniteSet(S), NEW s \in Orders(S)
    PROVE  /\ s \in Seq(S)
           /\ \A e \in S : \E i \in DOMAIN s : s[i] = e
<1> DEFINE n == Cardinality(S)
<1>1. n \in Nat
  BY FS_CardinalityType
<1>2. s \in [1 .. n -> S] /\ \A i, j \in 1 .. n : i < j => s[i] # s[j]
  BY DEF Orders
<1>3. \A i, j \in 1 .. n : s[i] = s[j] => i = j
  <2> SUFFICES ASSUME NEW i \in 1 .. n, NEW j \in 1 .. n, s[i] = s[j] PROVE i = j
    OBVIOUS
  <2>1. ~(i < j) /\ ~(j < i)
    BY <1>2
  <2> QED BY <2>1, <1>1
<1>4. s \in Injection(1 .. n, S)
  BY <1>2, <1>3 DEF Injection, IsInjective
<1>5. Cardinality(1 .. n) = n
  BY <1>1, FS_Interval
<1>6. s \in Surjection(1 .. n, S)
  BY <1>4, <1>5, FS_Injection
<1>7. \A e \in S : \E i \in 1 .. n : s[i] = e
  BY <1>6 DEF Surjection
<1> QED BY <1>1, <1>2, <1>7

\* The answer to a connection is all that lies behind the cursor.
LEMMA ConnectStep ==
    ASSUME OneAppender, StreamInv, Connect
    PROVE  StreamInv'
<1> DEFINE S == Replayed(cursor)
<1>1. S \subseteq Committed /\ S \subseteq Steps /\ IsFiniteSet(S)
  BY CountIsNatural, FS_Subset DEF Replayed, Committed
<1>2. response' \in Orders(S)
  BY DEF Connect
<1>3. response' \in Seq(S) /\ \A e \in S : \E i \in DOMAIN response' : response'[i] = e
  BY <1>1, <1>2, OrdersAreComplete
<1>4. UNCHANGED <<sequence, counted, cursor, received>> /\ connected' = TRUE
  BY DEF Connect
<1>5. Committed' = Committed /\ Delivered' = Delivered
  BY <1>4 DEF Committed, Delivered
<1>6. StreamTyped'
  <2>1. response' \in Seq(Committed)
    BY <1>1, <1>3
  <2> QED BY <1>4, <1>5, <2>1 DEF StreamInv, StreamTyped
<1>7. SequencesDiffer' /\ CursorIsExact'
  BY <1>4, <1>5 DEF StreamInv, SequencesDiffer, CursorIsExact
<1>8. \A i \in DOMAIN response' : response'[i] \in Committed /\ cursor < sequence[response'[i]]
  BY <1>3 DEF Replayed
<1>9. \A i, j \in DOMAIN response' : i < j => sequence[response'[i]] < sequence[response'[j]]
  <2> SUFFICES ASSUME NEW i \in DOMAIN response', NEW j \in DOMAIN response', i < j
               PROVE  sequence[response'[i]] < sequence[response'[j]]
    OBVIOUS
  <2>1. response'[i] # response'[j] /\ sequence[response'[i]] <= sequence[response'[j]]
    BY <1>2 DEF Orders
  <2>2. response'[i] \in Committed /\ response'[j] \in Committed
    BY <1>8
  <2>3. sequence[response'[i]] # sequence[response'[j]]
    BY <2>1, <2>2 DEF StreamInv, SequencesDiffer
  <2>4. sequence[response'[i]] \in Int /\ sequence[response'[j]] \in Int
    BY <2>2 DEF StreamInv, StreamTyped, Committed
  <2> QED BY <2>1, <2>3, <2>4
<1>10. \A e \in Committed : cursor < sequence[e] => e \in S
  BY DEF Replayed, StreamInv, StreamTyped, Committed
<1>11. ResponseGoesOn'
  BY <1>3, <1>4, <1>5, <1>8, <1>9, <1>10 DEF ResponseGoesOn
<1> QED BY <1>6, <1>7, <1>11 DEF StreamInv

\* The client takes the first event: nothing lies between it and the cursor.
LEMMA ReceiveStep ==
    ASSUME StreamInv, Receive
    PROVE  StreamInv'
<1> DEFINE first == response[1]
<1>1. /\ response # <<>> /\ response \in Seq(Committed)
      /\ 1 \in DOMAIN response /\ first \in Committed
  BY DEF Receive, StreamInv, StreamTyped
<1>2. /\ cursor' = sequence[first] /\ received' = Append(received, first)
      /\ response' = Tail(response) /\ UNCHANGED <<sequence, counted, connected>>
  BY <1>1 DEF Receive
<1>3. Committed' = Committed
  BY <1>2 DEF Committed
<1>4. sequence[first] \in Nat /\ cursor < sequence[first] /\ cursor \in Int
  BY <1>1 DEF StreamInv, StreamTyped, ResponseGoesOn, Committed
<1>5. /\ received' \in Seq(Committed) /\ Len(received') = Len(received) + 1
      /\ \A i \in 1 .. Len(received) : received'[i] = received[i]
      /\ received'[Len(received) + 1] = first
      /\ Len(received) \in Nat /\ DOMAIN received = 1 .. Len(received)
      /\ DOMAIN received' = 1 .. Len(received) + 1
  BY <1>1, <1>2 DEF StreamInv, StreamTyped
<1>6. Delivered' = Delivered \cup {first}
  <2>1. \A i \in 1 .. Len(received) + 1 : i = Len(received) + 1 \/ i \in 1 .. Len(received)
    BY <1>5
  <2> QED BY <1>5, <2>1 DEF Delivered
<1>7. first \notin Delivered
  BY <1>1, <1>4 DEF StreamInv, CursorIsExact
<1>8. \A i \in DOMAIN response' : /\ i + 1 \in DOMAIN response /\ response'[i] = response[i + 1]
                                  /\ response'[i] \in Committed
  BY <1>1, <1>2
<1>9. \A j \in DOMAIN response : j # 1 => j - 1 \in DOMAIN response' /\ response'[j - 1] = response[j]
  BY <1>1, <1>2
<1>10. StreamTyped'
  <2>1. response' \in Seq(Committed)
    BY <1>1, <1>2
  <2> QED BY <1>2, <1>3, <1>4, <1>5, <2>1 DEF StreamInv, StreamTyped
<1>11. SequencesDiffer'
  BY <1>1, <1>2, <1>3 DEF StreamInv, SequencesDiffer
<1>12. CursorIsExact'
  <2>1. ASSUME NEW e \in Committed PROVE sequence[e] <= sequence[first] <=> e \in Delivered \cup {first}
    <3>1. sequence[e] \in Nat
      BY DEF StreamInv, StreamTyped, Committed
    <3>2. CASE sequence[e] <= cursor
      BY <1>4, <3>1, <3>2 DEF StreamInv, CursorIsExact
    <3>3. CASE cursor < sequence[e] /\ sequence[e] < sequence[first]
      <4>1. PICK j \in DOMAIN response : response[j] = e
        BY <1>1, <3>3 DEF StreamInv, ResponseGoesOn
      <4>2. j # 1 /\ 1 < j
        BY <1>1, <1>4, <3>1, <3>3, <4>1
      <4>3. sequence[first] < sequence[e]
        BY <1>1, <4>1, <4>2 DEF StreamInv, ResponseGoesOn
      <4> QED BY <1>4, <3>1, <3>3, <4>3
    <3>4. CASE sequence[e] = sequence[first]
      <4>1. e = first
        BY <1>1, <3>4 DEF StreamInv, SequencesDiffer
      <4> QED BY <1>4, <4>1
    <3>5. CASE sequence[first] < sequence[e]
      BY <1>4, <3>1, <3>5 DEF StreamInv, CursorIsExact
    <3> QED BY <1>4, <3>1, <3>2, <3>3, <3>4, <3>5
  <2>2. \A i, j \in DOMAIN received' : i # j => received'[i] # received'[j]
    <3>1. \A i \in 1 .. Len(received) : received[i] # first
      BY <1>5, <1>7 DEF Delivered
    <3>2. \A i, j \in 1 .. Len(received) : i # j => received[i] # received[j]
      BY <1>5 DEF StreamInv, CursorIsExact
    <3>3. \A i \in 1 .. Len(received) + 1 : i = Len(received) + 1 \/ i \in 1 .. Len(received)
      BY <1>5
    <3> QED BY <1>5, <3>1, <3>2, <3>3
  <2> QED BY <1>2, <1>3, <1>6, <2>1, <2>2 DEF CursorIsExact
<1>13. ResponseGoesOn'
  <2>1. \A i \in DOMAIN response' : sequence[first] < sequence[response'[i]]
    <3> SUFFICES ASSUME NEW i \in DOMAIN response' PROVE sequence[first] < sequence[response'[i]]
      OBVIOUS
    <3>1. 1 < i + 1
      BY <1>1, <1>2
    <3> QED BY <1>1, <1>8, <3>1 DEF StreamInv, ResponseGoesOn
  <2>2. \A i, j \in DOMAIN response' : i < j => sequence[response'[i]] < sequence[response'[j]]
    <3> SUFFICES ASSUME NEW i \in DOMAIN response', NEW j \in DOMAIN response', i < j
                 PROVE  sequence[response'[i]] < sequence[response'[j]]
      OBVIOUS
    <3>1. i + 1 < j + 1
      BY <1>1, <1>2
    <3> QED BY <1>8, <3>1 DEF StreamInv, ResponseGoesOn
  <2>3. ASSUME NEW i \in DOMAIN response', NEW e \in Committed,
               sequence[first] < sequence[e], sequence[e] < sequence[response'[i]]
        PROVE  \E j \in DOMAIN response' : response'[j] = e
    <3>1. sequence[e] \in Nat
      BY DEF StreamInv, StreamTyped, Committed
    <3>2. PICK j \in DOMAIN response : response[j] = e
      BY <1>4, <1>8, <2>3, <3>1 DEF StreamInv, ResponseGoesOn
    <3>3. j # 1
      BY <2>3, <3>1, <3>2, <1>4
    <3> QED BY <1>9, <3>2, <3>3
  <2> QED BY <1>2, <1>3, <2>1, <2>2, <2>3 DEF ResponseGoesOn
<1> QED BY <1>10, <1>11, <1>12, <1>13 DEF StreamInv

\* Every step keeps StreamInv.
LEMMA StreamStep == OneAppender /\ StreamInv /\ [StreamNext]_streamVars => StreamInv'
<1> SUFFICES ASSUME OneAppender, StreamInv, [StreamNext]_streamVars PROVE StreamInv'
  OBVIOUS
<1>1. ASSUME NEW a \in Appenders, Count(a) \/ Drop(a) PROVE StreamInv'
  <2>1. UNCHANGED <<sequence, cursor, response, connected, received>>
    BY <1>1 DEF Count, Drop, clientVars
  <2>2. Committed' = Committed /\ Delivered' = Delivered
    BY <2>1 DEF Committed, Delivered
  <2>3. \E n \in {-1, Cardinality(Committed)} : counted' = [counted EXCEPT ![a] = n]
    BY <1>1 DEF Count, Drop
  <2>4. counted' \in [Appenders -> Nat \cup {-1}]
    BY <2>3, CountIsNatural DEF StreamInv, StreamTyped
  <2>5. \A b \in Appenders : counted'[b] >= 0 => counted'[b] = Cardinality(Committed)
    BY <2>3, CountIsNatural DEF StreamInv, StreamTyped, SequencesDiffer
  <2> QED BY <2>1, <2>2, <2>4, <2>5
          DEF StreamInv, StreamTyped, SequencesDiffer, CursorIsExact, ResponseGoesOn
<1>2. ASSUME Reject \/ End \/ Break \/ UNCHANGED streamVars PROVE StreamInv'
  <2>1. UNCHANGED <<sequence, counted, cursor, received>>
    BY <1>2 DEF Reject, End, Break, streamVars, clientVars
  <2>2. Committed' = Committed /\ Delivered' = Delivered
    BY <2>1 DEF Committed, Delivered
  <2>3. (response' = response \/ response' = <<>>) /\ connected' \in BOOLEAN
    BY <1>2 DEF Reject, End, Break, streamVars, clientVars, StreamInv, StreamTyped
  <2>4. StreamTyped'
    <3>1. response' \in Seq(Committed)
      <4>1. <<>> \in Seq(Committed) /\ response \in Seq(Committed)
        BY DEF StreamInv, StreamTyped
      <4> QED BY <2>3, <4>1
    <3>2. received' \in Seq(Committed)
      BY <2>1 DEF StreamInv, StreamTyped
    <3>3. /\ sequence' \in [Steps -> Nat \cup {-1}] /\ cursor' \in Nat \cup {-1}
          /\ counted' \in [Appenders -> Nat \cup {-1}]
      BY <2>1 DEF StreamInv, StreamTyped
    <3> QED BY <2>2, <2>3, <3>1, <3>2, <3>3 DEF StreamTyped
  <2>5. ResponseGoesOn'
    BY <2>1, <2>2, <2>3 DEF StreamInv, ResponseGoesOn
  <2>6. SequencesDiffer' /\ CursorIsExact'
    BY <2>1, <2>2 DEF StreamInv, SequencesDiffer, CursorIsExact
  <2> QED BY <2>4, <2>5, <2>6 DEF StreamInv
<1> QED BY <1>1, <1>2, InsertStep, ConnectStep, ReceiveStep DEF StreamNext

\* With one appender, a client that reconnects at its cursor misses nothing and gets
\* nothing twice, wherever the connection breaks (_append, stream_operation,
\* streamOperationEvents).
THEOREM ResumingIsExact == OneAppender /\ StreamSpec => []ResumeLosesNothing
<1>1. OneAppender /\ StreamInit => StreamInv
  BY StreamInitially
<1>2. OneAppender /\ StreamInv /\ [StreamNext]_streamVars => StreamInv'
  BY StreamStep
<1>3. StreamInv => ResumeLosesNothing
  BY DEF StreamInv, CursorIsExact, ResumeLosesNothing
<1>4. OneAppender <=> OneAppender'
  BY DEF OneAppender
<1> QED BY <1>1, <1>2, <1>3, <1>4, PTL DEF StreamSpec
=============================================================================
