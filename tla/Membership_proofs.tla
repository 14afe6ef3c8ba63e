---------------------------- MODULE Membership_proofs ----------------------------
(***************************************************************************)
(* Theorems about Membership, for every set of clients, wallets and        *)
(* organizations, and any number of requests and interruptions; and, in    *)
(* the second half, about the cached answers that members are served from  *)
(* and that joining clears (ReadCache), for every set of requests and      *)
(* answers and any number of changes, restarts and closed sockets.         *)
(***************************************************************************)
EXTENDS Membership, ReadCache, FiniteSetTheorems, TLAPS

-----------------------------------------------------------------------------

(* A request that is about to make a row of the wallet. *)
Makes(q, w) == q.wallet = w /\ q.step \in {"find_account", "create_account", "create_user"}

(* A request that is about to make the user a member, or a listing that    *)
(* has yet to come to the user's wallet and will not look again.           *)
Announces(q, o, u) ==
    /\ q.organization = o
    /\ (q.step = "create_member" /\ q.user = u) \/ u[1] \in q.todo

Makers(w) == {c \in Clients : Makes(requests[c], w)}
Announcers(o, u) == {c \in Clients : Announces(requests[c], o, u)}

(* What a request has read, by the step it is at. *)
Sound(q) ==
    /\ q \in Request
    /\ q.step \in {"find_organization", "save_organization", "find_member", "create_member"}
         => q.user \in User
    /\ q.step = "create_member" => q.user[1] \notin q.todo
    /\ q.step \notin {"next_contributor", "create_member"} => q.todo = {}

RequestsSound ==
    /\ requests \in [Clients -> Request]
    /\ \A c \in Clients : Sound(requests[c])

RowsTypeOK ==
    /\ users \in [Wallets -> Nat]
    /\ accounts \subseteq Usernames
    /\ organizations \subseteq Orgs
    /\ members \in [Orgs -> [User -> Nat]]
    /\ contributors \in [Orgs -> SUBSET Wallets]
    /\ faults \in 0..MaxFaults

UserRowsBounded ==
    \A w \in Wallets : users[w] + Cardinality(Makers(w)) <= Cardinality(Clients)

MemberRowsBounded ==
    \A o \in Orgs, u \in User :
        members[o][u] + Cardinality(Announcers(o, u)) <= Cardinality(Clients)

MembershipInv == RowsTypeOK /\ RequestsSound /\ UserRowsBounded /\ MemberRowsBounded

-----------------------------------------------------------------------------
(***************************************************************************)
(* Counting the requests that are about to make a row.                     *)
(***************************************************************************)

(* Sets of clients are finite, and counted by naturals. *)
LEMMA ClientsCounted ==
    ASSUME NEW S, S \subseteq Clients
    PROVE  /\ IsFiniteSet(S) /\ Cardinality(S) \in Nat
           /\ Cardinality(S) <= Cardinality(Clients) /\ Cardinality(Clients) \in Nat
  <1>1. IsFiniteSet(Clients)
    BY MembershipAssumption
  <1>2. IsFiniteSet(S) /\ Cardinality(S) <= Cardinality(Clients)
    BY <1>1, FS_Subset
  <1> QED BY <1>1, <1>2, FS_CardinalityType

(* A set of clients that leaves one of a larger set out is smaller. *)
LEMMA OneLess ==
    ASSUME NEW S, S \subseteq Clients, NEW T, T \subseteq S, NEW c \in S, c \notin T
    PROVE  Cardinality(T) + 1 <= Cardinality(S)
  <1>1. IsFiniteSet(S) /\ Cardinality(S) \in Nat
    BY ClientsCounted
  <1>2. IsFiniteSet(S \ {c}) /\ Cardinality(S \ {c}) = Cardinality(S) - 1
    BY <1>1, FS_RemoveElement
  <1>3. T \subseteq S \ {c}
    OBVIOUS
  <1>4. Cardinality(T) <= Cardinality(S \ {c}) /\ Cardinality(T) \in Nat
    BY <1>2, <1>3, FS_Subset, FS_CardinalityType
  <1> QED BY <1>1, <1>2, <1>4

(* The one step of counting that users and members have in common: P is    *)
(* the set of requests about to make a row, n the rows, before and after a *)
(* step of client c.                                                       *)
LEMMA RowsCounted ==
    ASSUME NEW P, P \subseteq Clients, NEW Q, Q \subseteq Clients, NEW c \in Clients,
           Q \subseteq P \cup {c},
           NEW n \in Nat, NEW m \in Nat, n + Cardinality(P) <= Cardinality(Clients),
           \/ m = n /\ (c \in Q => c \in P)
           \/ m = 0
           \/ m = 1 /\ c \notin Q
           \/ m = n + 1 /\ c \in P /\ c \notin Q
    PROVE  m + Cardinality(Q) <= Cardinality(Clients)
  <1>0. /\ Cardinality(P) \in Nat /\ Cardinality(Q) \in Nat /\ Cardinality(Clients) \in Nat
        /\ Cardinality(Q) <= Cardinality(Clients)
    BY ClientsCounted
  <1>1. CASE m = n /\ (c \in Q => c \in P)
    <2>1. Q \subseteq P /\ IsFiniteSet(P)
      BY <1>1, ClientsCounted
    <2>2. Cardinality(Q) <= Cardinality(P)
      BY <2>1, FS_Subset
    <2> QED BY <1>0, <1>1, <2>2
  <1>2. CASE m = 0
    BY <1>0, <1>2
  <1>3. CASE m = 1 /\ c \notin Q
    <2>1. Cardinality(Q) + 1 <= Cardinality(Clients)
      BY <1>3, OneLess
    <2> QED BY <1>0, <1>3, <2>1
  <1>4. CASE m = n + 1 /\ c \in P /\ c \notin Q
    <2>1. Q \subseteq P
      BY <1>4
    <2>2. Cardinality(Q) + 1 <= Cardinality(P)
      BY <1>4, <2>1, OneLess
    <2> QED BY <1>0, <1>4, <2>2
  <1> QED BY <1>1, <1>2, <1>3, <1>4

(* A step of one client keeps the bounds, if it announces a row before it  *)
(* makes it, or else makes or announces it only where there is none yet.   *)
LEMMA StepOfOneKeeps ==
    ASSUME MembershipInv, NEW c \in Clients, RowsTypeOK',
           requests' \in [Clients -> Request], Sound(requests'[c]),
           \A d \in Clients \ {c} : requests'[d] = requests[d],
           \A w \in Wallets :
             \/ users'[w] = users[w] /\ (Makes(requests'[c], w) => Makes(requests[c], w))
             \/ users'[w] = 0
             \/ /\ users'[w] = users[w] + 1
                /\ Makes(requests[c], w) /\ ~Makes(requests'[c], w),
           \A o \in Orgs, u \in User :
             \/ /\ members'[o][u] = members[o][u]
                /\ Announces(requests'[c], o, u) => Announces(requests[c], o, u)
             \/ members'[o][u] = 0
             \/ members'[o][u] = 1 /\ ~Announces(requests'[c], o, u)
             \/ /\ members'[o][u] = members[o][u] + 1
                /\ Announces(requests[c], o, u) /\ ~Announces(requests'[c], o, u)
    PROVE  MembershipInv'
  <1>1. RequestsSound'
    BY DEF MembershipInv, RequestsSound
  <1>2. UserRowsBounded'
    <2> SUFFICES ASSUME NEW w \in Wallets
                 PROVE  users'[w] + Cardinality(Makers(w)') <= Cardinality(Clients)
      BY DEF UserRowsBounded
    <2>1. /\ Makers(w) \subseteq Clients /\ Makers(w)' \subseteq Clients
          /\ Makers(w)' \subseteq Makers(w) \cup {c}
          /\ c \in Makers(w) <=> Makes(requests[c], w)
          /\ c \in Makers(w)' <=> Makes(requests'[c], w)
      BY DEF Makers
    <2>2. /\ users[w] \in Nat /\ users'[w] \in Nat
          /\ users[w] + Cardinality(Makers(w)) <= Cardinality(Clients)
      BY DEF MembershipInv, RowsTypeOK, UserRowsBounded
    <2>3. \/ users'[w] = users[w] /\ (c \in Makers(w)' => c \in Makers(w))
          \/ users'[w] = 0
          \/ users'[w] = users[w] + 1 /\ c \in Makers(w) /\ c \notin Makers(w)'
      BY <2>1
    <2> QED BY <2>1, <2>2, <2>3, RowsCounted
  <1>3. MemberRowsBounded'
    <2> SUFFICES ASSUME NEW o \in Orgs, NEW u \in User
                 PROVE  members'[o][u] + Cardinality(Announcers(o, u)') <= Cardinality(Clients)
      BY DEF MemberRowsBounded, User
    <2>1. /\ Announcers(o, u) \subseteq Clients /\ Announcers(o, u)' \subseteq Clients
          /\ Announcers(o, u)' \subseteq Announcers(o, u) \cup {c}
          /\ c \in Announcers(o, u) <=> Announces(requests[c], o, u)
          /\ c \in Announcers(o, u)' <=> Announces(requests'[c], o, u)
      BY DEF Announcers
    <2>2. /\ members[o][u] \in Nat /\ members'[o][u] \in Nat
          /\ members[o][u] + Cardinality(Announcers(o, u)) <= Cardinality(Clients)
      BY DEF MembershipInv, RowsTypeOK, MemberRowsBounded, User
    <2>3. \/ members'[o][u] = members[o][u] /\ (c \in Announcers(o, u)' => c \in Announcers(o, u))
          \/ members'[o][u] = 0
          \/ members'[o][u] = 1 /\ c \notin Announcers(o, u)'
          \/ /\ members'[o][u] = members[o][u] + 1
             /\ c \in Announcers(o, u) /\ c \notin Announcers(o, u)'
      BY <2>1
    <2> QED BY <2>1, <2>2, <2>3, RowsCounted
  <1> QED BY <1>1, <1>2, <1>3 DEF MembershipInv

-----------------------------------------------------------------------------
(***************************************************************************)
(* The requests.                                                           *)
(***************************************************************************)
Steps == {"idle", "find_user", "find_account", "create_account", "create_user",
          "find_organization", "save_organization", "find_member", "create_member",
          "read_organization", "next_contributor"}

(* A client without a request is about to make nothing. *)
LEMMA IdleRequest ==
    /\ Idle \in Request /\ Sound(Idle) /\ Idle.todo = {} /\ Idle.step = "idle"
    /\ \A w \in Wallets : ~Makes(Idle, w)
    /\ \A o \in Orgs, u \in User : ~Announces(Idle, o, u)
  <1>1. AnyWallet \in Wallets /\ (CHOOSE o \in Orgs : TRUE) \in Orgs
    BY MembershipAssumption DEF AnyWallet
  <1>2. Idle \in Request /\ Idle.todo = {} /\ Idle.step = "idle"
    BY <1>1 DEF Idle, Request
  <1> QED BY <1>2 DEF Sound, Makes, Announces

(* What a step to another one leaves of a request. *)
LEMMA Moves ==
    ASSUME RequestsSound, NEW c \in Clients, NEW s \in Steps, Goto(c, s)
    PROVE  /\ requests' \in [Clients -> Request]
           /\ \A d \in Clients \ {c} : requests'[d] = requests[d]
           /\ s = "idle" => requests'[c] = Idle
           /\ s # "idle" =>
                /\ requests'[c].step = s
                /\ requests'[c].kind = requests[c].kind
                /\ requests'[c].wallet = requests[c].wallet
                /\ requests'[c].organization = requests[c].organization
                /\ requests'[c].user = requests[c].user
                /\ requests'[c].todo = requests[c].todo
  <1>1. requests[c] \in Request
    BY DEF RequestsSound
  <1>2. [requests[c] EXCEPT !.step = s] \in Request
    BY <1>1 DEF Request, Steps
  <1>3. requests' = [requests EXCEPT ![c] = IF s = "idle" THEN Idle
                                           ELSE [requests[c] EXCEPT !.step = s]]
    BY DEF Goto
  <1> QED BY <1>1, <1>2, <1>3, IdleRequest DEF RequestsSound, Request

(* A request that has come to an end leaves all bounds as they are.        *)
LEMMA EndKeeps ==
    ASSUME MembershipInv, NEW c \in Clients, requests' = [requests EXCEPT ![c] = Idle],
           RowsTypeOK', UNCHANGED <<users, members>>
    PROVE  MembershipInv'
  <1>1. /\ requests' \in [Clients -> Request] /\ requests'[c] = Idle
        /\ \A d \in Clients \ {c} : requests'[d] = requests[d]
    BY IdleRequest DEF MembershipInv, RequestsSound
  <1> QED BY <1>1, IdleRequest, StepOfOneKeeps

(* A step that makes no row and announces none.                            *)
LEMMA MoveKeeps ==
    ASSUME MembershipInv, NEW c \in Clients, NEW s \in Steps, Goto(c, s),
           RowsTypeOK', UNCHANGED <<users, members>>,
           s # "idle" =>
             /\ s \notin {"create_member", "next_contributor"}
             /\ requests[c].todo = {}
             /\ s \in {"find_organization", "save_organization", "find_member"}
                  => requests[c].user \in User,
           s \in {"find_account", "create_account", "create_user"} =>
             users[requests[c].wallet] = 0 \/ Makes(requests[c], requests[c].wallet)
    PROVE  MembershipInv'
  <1>1. RequestsSound /\ requests[c] \in Request /\ requests[c].wallet \in Wallets
    BY DEF MembershipInv, RequestsSound, Request
  <1>2. CASE s = "idle"
    <2>1. requests' = [requests EXCEPT ![c] = Idle]
      BY <1>2 DEF Goto
    <2> QED BY <2>1, EndKeeps
  <1>3. CASE s # "idle"
    <2>1. /\ requests' \in [Clients -> Request]
          /\ \A d \in Clients \ {c} : requests'[d] = requests[d]
          /\ requests'[c].step = s
          /\ requests'[c].wallet = requests[c].wallet
          /\ requests'[c].user = requests[c].user
          /\ requests'[c].todo = {}
      BY <1>1, <1>3, Moves
    <2>2. Sound(requests'[c])
      BY <1>3, <2>1 DEF Sound
    <2>3. \A o \in Orgs, u \in User : ~Announces(requests'[c], o, u)
      BY <1>3, <2>1 DEF Announces
    <2>4. \A w \in Wallets :
            Makes(requests'[c], w) => users'[w] = 0 \/ Makes(requests[c], w)
      BY <2>1 DEF Makes
    <2> QED BY <2>1, <2>2, <2>3, <2>4, StepOfOneKeeps
  <1> QED BY <1>2, <1>3

-----------------------------------------------------------------------------
(* At the start there are no rows and no requests. *)
THEOREM MembershipInit == Init => MembershipInv
  <1> SUFFICES ASSUME Init PROVE MembershipInv
    OBVIOUS
  <1>1. RowsTypeOK
    BY MembershipAssumption DEF Init, RowsTypeOK
  <1>2. RequestsSound
    BY IdleRequest DEF Init, RequestsSound
  <1>3. UserRowsBounded
    <2>1. \A w \in Wallets : users[w] = 0 /\ Makers(w) \subseteq Clients
      BY DEF Init, Makers
    <2> QED BY <2>1, ClientsCounted DEF UserRowsBounded
  <1>4. MemberRowsBounded
    <2>1. \A o \in Orgs, u \in User : members[o][u] = 0 /\ Announcers(o, u) \subseteq Clients
      BY DEF Init, Announcers
    <2>2. \A o \in Orgs, u \in User :
            members[o][u] + Cardinality(Announcers(o, u)) <= Cardinality(Clients)
      BY <2>1, ClientsCounted
    <2> QED BY <2>2 DEF MemberRowsBounded
  <1> QED BY <1>1, <1>2, <1>3, <1>4 DEF MembershipInv

(* A request that begins has found nothing yet, but the user who makes it. *)
LEMMA StartKeeps ==
    ASSUME MembershipInv, NEW c \in Clients, NEW kind \in {"signin", "list_projects", "join",
             "list_members", "propose", "create"},
           NEW s \in {"find_user", "find_organization", "read_organization", "save_organization"},
           NEW w \in Wallets, NEW o \in Orgs, NEW u \in User \cup {NoUser},
           s \in {"find_organization", "save_organization"} => u \in User,
           Start(c, kind, s, w, o, u), RowsTypeOK', UNCHANGED <<users, members>>
    PROVE  MembershipInv'
  <1> DEFINE new == [kind |-> kind, step |-> s, wallet |-> w, organization |-> o, user |-> u,
                     todo |-> {}]
  <1>1. new \in Request /\ new.step = s /\ new.todo = {} /\ new.user = u
    BY DEF Request
  <1>2. requests' = [requests EXCEPT ![c] = new]
    BY DEF Start
  <1> HIDE DEF new
  <1>3. /\ requests' \in [Clients -> Request] /\ requests'[c] = new
        /\ \A d \in Clients \ {c} : requests'[d] = requests[d]
    BY <1>1, <1>2 DEF MembershipInv, RequestsSound
  <1>4. Sound(new)
    BY <1>1 DEF Sound
  <1>5. /\ \A x \in Wallets : ~Makes(new, x)
        /\ \A p \in Orgs, x \in User : ~Announces(new, p, x)
    BY <1>1 DEF Makes, Announces
  <1> QED BY <1>3, <1>4, <1>5, StepOfOneKeeps

(* Requests of every kind begin. *)
LEMMA SubmitKeeps ==
    ASSUME MembershipInv, NEW c \in Clients, Submit(c)
    PROVE  MembershipInv'
  <1>0. /\ RowsTypeOK /\ ExistingUsers \subseteq User
        /\ Idle.organization \in Orgs /\ NoUser \in User \cup {NoUser} /\ AnyWallet \in Wallets
    BY IdleRequest, MembershipAssumption DEF MembershipInv, ExistingUsers, Request, AnyWallet
  <1>1. ASSUME NEW w \in Wallets, StartSignIn(c, w) \/ StartListProjects(c, w)
        PROVE  MembershipInv'
    <2>1. UNCHANGED <<users, accounts, organizations, members, contributors, faults>>
      BY <1>1 DEF StartSignIn, StartListProjects
    <2>2. RowsTypeOK'
      BY <1>0, <2>1 DEF RowsTypeOK
    <2> QED BY <1>0, <1>1, <2>1, <2>2, StartKeeps DEF StartSignIn, StartListProjects
  <1>2. ASSUME NEW u \in User, NEW o \in Orgs, StartJoin(c, u, o)
        PROVE  MembershipInv'
    <2>1. UNCHANGED <<users, accounts, organizations, members, contributors, faults>>
      BY <1>2 DEF StartJoin
    <2>2. RowsTypeOK' /\ u[1] \in Wallets
      BY <1>0, <2>1 DEF RowsTypeOK, User
    <2> QED BY <1>2, <2>1, <2>2, StartKeeps DEF StartJoin
  <1>3. ASSUME NEW u \in User, NEW o \in Orgs, StartCreate(c, u, o)
        PROVE  MembershipInv'
    <2>1. /\ UNCHANGED <<users, accounts, organizations, members, faults>>
          /\ contributors' = [contributors EXCEPT ![o] = {u[1]}]
      BY <1>3 DEF StartCreate
    <2>2. RowsTypeOK' /\ u[1] \in Wallets
      BY <1>0, <2>1 DEF RowsTypeOK, User
    <2> QED BY <1>3, <2>1, <2>2, StartKeeps DEF StartCreate
  <1>4. ASSUME NEW o \in Orgs, StartListMembers(c, o)
        PROVE  MembershipInv'
    <2>1. UNCHANGED <<users, accounts, organizations, members, contributors, faults>>
      BY <1>4 DEF StartListMembers
    <2>2. RowsTypeOK'
      BY <1>0, <2>1 DEF RowsTypeOK
    <2> QED BY <1>0, <1>4, <2>1, <2>2, StartKeeps DEF StartListMembers
  <1>5. ASSUME NEW w \in Wallets, NEW o \in Orgs, StartPropose(c, w, o)
        PROVE  MembershipInv'
    <2>1. UNCHANGED <<users, accounts, organizations, members, contributors, faults>>
      BY <1>5 DEF StartPropose
    <2>2. RowsTypeOK'
      BY <1>0, <2>1 DEF RowsTypeOK
    <2> QED BY <1>0, <1>5, <2>1, <2>2, StartKeeps DEF StartPropose
  <1> QED BY <1>1, <1>2, <1>3, <1>4, <1>5 DEF Submit
-----------------------------------------------------------------------------
(***************************************************************************)
(* The steps of a request.                                                 *)
(***************************************************************************)

(* What a request is, spelled out for the steps below. *)
LEMMA RequestFacts ==
    ASSUME MembershipInv, NEW c \in Clients
    PROVE  /\ RowsTypeOK /\ RequestsSound
           /\ requests[c] \in Request /\ Sound(requests[c])
           /\ Wallet(c) \in Wallets /\ Wallet(c) = requests[c].wallet
           /\ Organization(c) \in Orgs /\ Organization(c) = requests[c].organization
           /\ requests[c].todo \subseteq Wallets
    BY DEF MembershipInv, RequestsSound, Request, Wallet, Organization

(* A row of a wallet is a user: there are no more of them than clients.    *)
LEMMA RowsAreUsers ==
    ASSUME MembershipInv, NEW w \in Wallets
    PROVE  /\ users[w] \in Nat /\ users[w] <= Cardinality(Clients)
           /\ \A i \in 1..users[w] : <<w, i>> \in User
           /\ \A c \in Makers(w) : users[w] + 1 <= Cardinality(Clients)
  <1>1. Makers(w) \subseteq Clients
    BY DEF Makers
  <1>2. /\ Cardinality(Makers(w)) \in Nat /\ Cardinality(Clients) \in Nat
        /\ users[w] \in Nat /\ users[w] + Cardinality(Makers(w)) <= Cardinality(Clients)
    BY <1>1, ClientsCounted DEF MembershipInv, RowsTypeOK, UserRowsBounded
  <1>3. ASSUME NEW c \in Makers(w)
        PROVE  1 <= Cardinality(Makers(w))
    <2>1. Cardinality({}) + 1 <= Cardinality(Makers(w))
      BY <1>1, OneLess
    <2> QED BY <2>1, <1>2, FS_EmptySet
  <1> QED BY <1>2, <1>3 DEF User

(* A user that is found or made ends the request, or is looked for among   *)
(* the members.                                                            *)
LEMMA FoundKeeps ==
    ASSUME MembershipInv, NEW c \in Clients, NEW u \in User, UserFound(c, u), RowsTypeOK',
           requests[c].todo = {}, UNCHANGED members,
           \A w \in Wallets :
             \/ users'[w] = users[w]
             \/ users'[w] = users[w] + 1 /\ Makes(requests[c], w)
    PROVE  MembershipInv'
  <1> DEFINE new == [requests[c] EXCEPT !.user = u, !.step = "find_member"]
  <1>1. requests[c] \in Request
    BY RequestFacts
  <1>2. new \in Request /\ new.step = "find_member" /\ new.user = u /\ new.todo = {}
    BY <1>1 DEF Request
  <1>3. requests' = [requests EXCEPT ![c] = new] \/ requests' = [requests EXCEPT ![c] = Idle]
    BY DEF UserFound
  <1> HIDE DEF new
  <1>4. /\ requests' \in [Clients -> Request] /\ requests'[c] \in {new, Idle}
        /\ \A d \in Clients \ {c} : requests'[d] = requests[d]
    BY <1>2, <1>3, IdleRequest, RequestFacts DEF RequestsSound
  <1>5. /\ Sound(requests'[c])
        /\ \A w \in Wallets : ~Makes(requests'[c], w)
        /\ \A o \in Orgs, v \in User : ~Announces(requests'[c], o, v)
    BY <1>2, <1>4, IdleRequest DEF Sound, Makes, Announces
  <1> QED BY <1>4, <1>5, StepOfOneKeeps

(* The lookups of a user, and of an account when there is none. *)
LEMMA FindUserKeeps ==
    ASSUME MembershipInv, NEW c \in Clients, FindUser(c) \/ FindAccount(c) \/ CreateAccount(c)
    PROVE  MembershipInv'
  <1>0. /\ RowsTypeOK /\ Wallet(c) \in Wallets /\ requests[c] \in Request
        /\ Wallet(c) = requests[c].wallet
        /\ requests[c].step \in {"find_user", "find_account", "create_account"}
        /\ requests[c].todo = {} /\ users[Wallet(c)] \in Nat
    BY RequestFacts, RowsAreUsers DEF Sound, FindUser, FindAccount, CreateAccount, At
  <1>1. /\ UNCHANGED <<users, organizations, members, contributors, faults>>
        /\ accounts' \subseteq accounts \cup {Username[Wallet(c)]}
    BY DEF FindUser, FindAccount, CreateAccount
  <1>2. RowsTypeOK'
    BY <1>0, <1>1, UsernameAssumption DEF RowsTypeOK
  <1>3. CASE FindUser(c) /\ users[Wallet(c)] > 0
    <2>1. PICK i \in 1..users[Wallet(c)] : UserFound(c, <<Wallet(c), i>>)
      BY <1>3 DEF FindUser
    <2>2. <<Wallet(c), i>> \in User
      BY <1>0, RowsAreUsers
    <2> QED BY <1>0, <1>1, <1>2, <2>1, <2>2, FoundKeeps
  <1>4. CASE FindUser(c) /\ ~(users[Wallet(c)] > 0)
    <2>1. Goto(c, "find_account") /\ users[Wallet(c)] = 0
      BY <1>0, <1>4 DEF FindUser
    <2> QED BY <1>0, <1>1, <1>2, <2>1, MoveKeeps DEF Steps
  <1>5. CASE FindAccount(c) \/ CreateAccount(c)
    <2>1. PICK s \in {"idle", "create_account", "create_user"} : Goto(c, s)
      BY <1>5 DEF FindAccount, CreateAccount, AccountMissing
    <2>2. Makes(requests[c], requests[c].wallet)
      BY <1>5 DEF FindAccount, CreateAccount, At, Makes
    <2> QED BY <1>0, <1>1, <1>2, <2>1, <2>2, MoveKeeps DEF Steps
  <1> QED BY <1>3, <1>4, <1>5

(* A row for the wallet: its request was counted among the makers. *)
LEMMA CreateUserKeeps ==
    ASSUME MembershipInv, NEW c \in Clients, CreateUser(c)
    PROVE  MembershipInv'
  <1> DEFINE w == Wallet(c)
  <1>1. /\ RowsTypeOK /\ w \in Wallets /\ w = requests[c].wallet
        /\ requests[c].step = "create_user" /\ requests[c].todo = {}
    BY RequestFacts DEF Sound, CreateUser, At
  <1>2. Makes(requests[c], w) /\ c \in Makers(w)
    BY <1>1 DEF Makes, Makers
  <1>3. /\ users' = [users EXCEPT ![w] = users[w] + 1]
        /\ UserFound(c, <<w, users'[w]>>)
        /\ UNCHANGED <<accounts, organizations, members, contributors, faults>>
    BY DEF CreateUser
  <1>4. users[w] \in Nat /\ users[w] + 1 <= Cardinality(Clients)
    BY <1>1, <1>2, RowsAreUsers
  <1>5. users'[w] = users[w] + 1 /\ \A x \in Wallets \ {w} : users'[x] = users[x]
    BY <1>1, <1>3 DEF RowsTypeOK
  <1>6. Cardinality(Clients) \in Nat
    BY ClientsCounted
  <1>7. <<w, users'[w]>> \in User
    BY <1>1, <1>4, <1>5, <1>6 DEF User
  <1>8. RowsTypeOK'
    BY <1>1, <1>3, <1>4 DEF RowsTypeOK
  <1> HIDE DEF w
  <1> QED BY <1>1, <1>2, <1>3, <1>5, <1>7, <1>8, FoundKeeps

(* The organization's row and the lookup of a member. *)
LEMMA FindOrganizationKeeps ==
    ASSUME MembershipInv, NEW c \in Clients, FindOrganization(c)
    PROVE  MembershipInv'
  <1>1. /\ requests[c].step = "find_organization" /\ requests[c].todo = {}
        /\ requests[c].user \in User /\ RowsTypeOK
    BY RequestFacts DEF Sound, FindOrganization, At
  <1>2. UNCHANGED <<users, accounts, organizations, members, contributors, faults>>
    BY DEF FindOrganization
  <1>3. RowsTypeOK'
    BY <1>1, <1>2 DEF RowsTypeOK
  <1>4. PICK s \in {"find_member", "save_organization"} : Goto(c, s)
    BY DEF FindOrganization
  <1> QED BY <1>1, <1>2, <1>3, <1>4, MoveKeeps DEF Steps

(* The save happens to an organization without members, and leaves at most *)
(* the creator in it.                                                      *)
LEMMA SaveOrganizationKeeps ==
    ASSUME MembershipInv, NEW c \in Clients, SaveOrganization(c)
    PROVE  MembershipInv' /\ \A o \in Orgs, u \in User : members'[o][u] >= members[o][u]
  <1> DEFINE o == Organization(c)
  <1> DEFINE user == requests[c].user
  <1>1. /\ RowsTypeOK /\ RequestsSound /\ o \in Orgs
        /\ requests[c].step = "save_organization" /\ requests[c].todo = {} /\ user \in User
    BY RequestFacts DEF Sound, SaveOrganization, At
  <1>2. UNCHANGED <<users, accounts, contributors, faults>>
    BY DEF SaveOrganization
  <1>3. CASE HasMembers(o)
    <2>1. UNCHANGED <<organizations, members>> /\ Goto(c, "idle")
      BY <1>3 DEF SaveOrganization
    <2>2. RowsTypeOK'
      BY <1>1, <1>2, <2>1 DEF RowsTypeOK
    <2>3. \A p \in Orgs, u \in User : members'[p][u] >= members[p][u]
      BY <1>1, <2>1 DEF RowsTypeOK
    <2> QED BY <1>2, <2>1, <2>2, <2>3, MoveKeeps DEF Steps
  <1>4. CASE ~HasMembers(o) /\ requests[c].kind = "create"
    <2>1. /\ organizations' = organizations \cup {o}
          /\ members' = [members EXCEPT ![o][user] = 1]
          /\ Goto(c, "idle")
      BY <1>4 DEF SaveOrganization
    <2>2. RowsTypeOK'
      BY <1>1, <1>2, <2>1 DEF RowsTypeOK
    <2>3. /\ members'[o][user] = 1 /\ members[o][user] = 0
          /\ \A p \in Orgs, u \in User : p # o \/ u # user => members'[p][u] = members[p][u]
      BY <1>1, <1>4, <2>1 DEF RowsTypeOK, HasMembers
    <2>4. /\ requests' \in [Clients -> Request] /\ requests'[c] = Idle
          /\ \A d \in Clients \ {c} : requests'[d] = requests[d]
      BY <1>1, <2>1, Moves DEF Steps
    <2>5. MembershipInv'
      BY <1>2, <2>2, <2>3, <2>4, IdleRequest, StepOfOneKeeps
    <2>6. \A p \in Orgs, u \in User : members'[p][u] >= members[p][u]
      BY <1>1, <2>3 DEF RowsTypeOK
    <2> QED BY <2>5, <2>6
  <1>5. CASE ~HasMembers(o) /\ requests[c].kind # "create"
    <2>1. /\ organizations' = organizations \cup {o}
          /\ UNCHANGED members /\ Goto(c, "find_member")
      BY <1>5 DEF SaveOrganization
    <2>2. RowsTypeOK'
      BY <1>1, <1>2, <2>1 DEF RowsTypeOK
    <2>3. \A p \in Orgs, u \in User : members'[p][u] >= members[p][u]
      BY <1>1, <2>1 DEF RowsTypeOK
    <2> QED BY <1>1, <1>2, <2>1, <2>2, <2>3, MoveKeeps DEF Steps
  <1> QED BY <1>3, <1>4, <1>5
(* A member row is announced only where there is none. *)
LEMMA FindMemberKeeps ==
    ASSUME MembershipInv, NEW c \in Clients, FindMember(c)
    PROVE  MembershipInv'
  <1> DEFINE o == Organization(c)
  <1> DEFINE user == requests[c].user
  <1>1. /\ RowsTypeOK /\ RequestsSound /\ o \in Orgs /\ o = requests[c].organization
        /\ requests[c].step = "find_member" /\ requests[c].todo = {} /\ user \in User
    BY RequestFacts DEF Sound, FindMember, At
  <1>2. UNCHANGED <<users, accounts, organizations, members, contributors, faults>>
    BY DEF FindMember
  <1>3. RowsTypeOK'
    BY <1>1, <1>2 DEF RowsTypeOK
  <1>4. CASE members[o][user] > 0
    <2>1. Goto(c, "idle")
      BY <1>4 DEF FindMember
    <2> QED BY <1>2, <1>3, <2>1, MoveKeeps DEF Steps
  <1>5. CASE ~(members[o][user] > 0)
    <2>1. Goto(c, "create_member") /\ members[o][user] = 0
      BY <1>1, <1>5 DEF FindMember, RowsTypeOK
    <2>2. /\ requests' \in [Clients -> Request]
          /\ \A d \in Clients \ {c} : requests'[d] = requests[d]
          /\ requests'[c].step = "create_member"
          /\ requests'[c].organization = o
          /\ requests'[c].user = user
          /\ requests'[c].todo = {}
      BY <1>1, <2>1, Moves DEF Steps
    <2>3. Sound(requests'[c]) /\ \A w \in Wallets : ~Makes(requests'[c], w)
      BY <1>1, <2>2 DEF Sound, Makes
    <2>4. \A p \in Orgs, u \in User :
            Announces(requests'[c], p, u) => p = o /\ u = user
      BY <2>2 DEF Announces
    <2> HIDE DEF o, user
    <2>5. \A p \in Orgs, u \in User :
            \/ members'[p][u] = 0
            \/ members'[p][u] = members[p][u] /\ ~Announces(requests'[c], p, u)
      BY <1>2, <2>1, <2>4
    <2> QED BY <1>2, <1>3, <2>2, <2>3, <2>5, StepOfOneKeeps
  <1> QED BY <1>4, <1>5

(* The row that was announced is made. *)
LEMMA CreateMemberKeeps ==
    ASSUME MembershipInv, NEW c \in Clients, CreateMember(c)
    PROVE  MembershipInv' /\ \A o \in Orgs, u \in User : members'[o][u] >= members[o][u]
  <1> DEFINE o == Organization(c)
  <1> DEFINE user == requests[c].user
  <1>1. /\ RowsTypeOK /\ RequestsSound /\ o \in Orgs /\ o = requests[c].organization
        /\ requests[c].step = "create_member" /\ user \in User /\ user[1] \notin requests[c].todo
    BY RequestFacts DEF Sound, CreateMember, At
  <1>2. /\ members' = [members EXCEPT ![o][user] = members[o][user] + 1]
        /\ UNCHANGED <<users, accounts, organizations, contributors, faults>>
    BY DEF CreateMember
  <1>3. /\ members'[o][user] = members[o][user] + 1
        /\ \A p \in Orgs, u \in User : p # o \/ u # user => members'[p][u] = members[p][u]
        /\ members[o][user] \in Nat
    BY <1>1, <1>2 DEF RowsTypeOK
  <1>4. RowsTypeOK'
    BY <1>1, <1>2, <1>3 DEF RowsTypeOK
  <1>5. Announces(requests[c], o, user)
    BY <1>1 DEF Announces
  <1>6. PICK s \in {"idle", "next_contributor"} : Goto(c, s)
    BY DEF CreateMember
  <1>7. /\ requests' \in [Clients -> Request]
        /\ \A d \in Clients \ {c} : requests'[d] = requests[d]
    BY <1>1, <1>6, Moves DEF Steps
  <1>8. /\ Sound(requests'[c])
        /\ \A w \in Wallets : ~Makes(requests'[c], w)
        /\ ~Announces(requests'[c], o, user)
        /\ \A p \in Orgs, u \in User :
             Announces(requests'[c], p, u) => Announces(requests[c], p, u)
    <2>1. CASE s = "idle"
      <3>1. requests'[c] = Idle
        BY <1>1, <1>6, <2>1, Moves DEF Steps
      <3> QED BY <1>1, <3>1, IdleRequest
    <2>2. CASE s = "next_contributor"
      <3>1. /\ requests'[c].step = "next_contributor"
            /\ requests'[c].organization = requests[c].organization
            /\ requests'[c].todo = requests[c].todo
        BY <1>1, <1>6, <2>2, Moves DEF Steps
      <3> QED BY <1>1, <1>7, <3>1 DEF Sound, Makes, Announces
    <2> QED BY <2>1, <2>2
  <1>9. \A p \in Orgs, u \in User : members'[p][u] >= members[p][u]
    BY <1>1, <1>3 DEF RowsTypeOK
  <1> HIDE DEF o, user
  <1>10. \A p \in Orgs, u \in User :
           \/ /\ members'[p][u] = members[p][u]
              /\ Announces(requests'[c], p, u) => Announces(requests[c], p, u)
           \/ /\ members'[p][u] = members[p][u] + 1
              /\ Announces(requests[c], p, u) /\ ~Announces(requests'[c], p, u)
    BY <1>3, <1>5, <1>8
  <1>11. MembershipInv'
    BY <1>2, <1>4, <1>7, <1>8, <1>10, StepOfOneKeeps
  <1> QED BY <1>9, <1>11

(* A listing announces the contributors who have no row of any user.       *)
LEMMA ReadOrganizationKeeps ==
    ASSUME MembershipInv, NEW c \in Clients, ReadOrganization(c)
    PROVE  MembershipInv'
  <1> DEFINE o == Organization(c)
  <1> DEFINE todo == contributors[o] \ WalletsOfMembers(o)
  <1> DEFINE new == [requests[c] EXCEPT !.step = "next_contributor", !.todo = todo]
  <1>1. /\ RowsTypeOK /\ RequestsSound /\ o \in Orgs /\ o = requests[c].organization
        /\ requests[c].step = "read_organization" /\ requests[c] \in Request
    BY RequestFacts DEF ReadOrganization, At
  <1>2. UNCHANGED <<users, accounts, organizations, members, contributors, faults>>
    BY DEF ReadOrganization
  <1>3. RowsTypeOK'
    BY <1>1, <1>2 DEF RowsTypeOK
  <1>4. CASE o \in organizations
    <2>1. requests' = [requests EXCEPT ![c] = new]
      BY <1>4 DEF ReadOrganization
    <2>2. todo \subseteq Wallets
      BY <1>1 DEF RowsTypeOK
    <2>3. \A u \in User : u[1] \in todo => members[o][u] = 0
      BY <1>1, <2>2 DEF RowsTypeOK, WalletsOfMembers, User
    <2> HIDE DEF todo
    <2>4. /\ new \in Request /\ new.step = "next_contributor" /\ new.todo = todo
          /\ new.organization = o
      BY <1>1, <2>2 DEF Request
    <2> HIDE DEF new, o
    <2>5. /\ requests' \in [Clients -> Request] /\ requests'[c] = new
          /\ \A d \in Clients \ {c} : requests'[d] = requests[d]
      BY <1>1, <2>1, <2>4 DEF RequestsSound
    <2>6. Sound(new) /\ \A w \in Wallets : ~Makes(new, w)
      BY <2>4 DEF Sound, Makes
    <2>7. \A p \in Orgs, u \in User : Announces(new, p, u) => p = o /\ u[1] \in todo
      BY <2>4 DEF Announces
    <2>8. \A p \in Orgs, u \in User :
            \/ members'[p][u] = 0
            \/ members'[p][u] = members[p][u] /\ ~Announces(requests'[c], p, u)
      BY <1>2, <2>3, <2>5, <2>7
    <2> QED BY <1>2, <1>3, <2>5, <2>6, <2>8, StepOfOneKeeps
  <1>5. CASE o \notin organizations
    <2>1. Goto(c, "idle")
      BY <1>5 DEF ReadOrganization
    <2> QED BY <1>2, <1>3, <2>1, MoveKeeps DEF Steps
  <1> QED BY <1>4, <1>5

(* The next contributor was announced by the reading. *)
LEMMA NextContributorKeeps ==
    ASSUME MembershipInv, NEW c \in Clients, NextContributor(c)
    PROVE  MembershipInv'
  <1>1. /\ RowsTypeOK /\ RequestsSound /\ requests[c].step = "next_contributor"
        /\ requests[c] \in Request /\ requests[c].todo \subseteq Wallets
    BY RequestFacts DEF NextContributor, At
  <1>2. UNCHANGED <<users, accounts, organizations, members, contributors, faults>>
    BY DEF NextContributor
  <1>3. RowsTypeOK'
    BY <1>1, <1>2 DEF RowsTypeOK
  <1>4. ASSUME NEW w \in requests[c].todo, NEW new \in Request,
               requests' = [requests EXCEPT ![c] = new],
               new.organization = requests[c].organization, new.todo = requests[c].todo \ {w},
               \/ new.step = "next_contributor"
               \/ new.step = "create_member" /\ new.user \in User /\ new.user[1] = w
        PROVE  MembershipInv'
    <2>1. /\ requests' \in [Clients -> Request] /\ requests'[c] = new
          /\ \A d \in Clients \ {c} : requests'[d] = requests[d]
      BY <1>1, <1>4 DEF RequestsSound
    <2>2. Sound(new) /\ \A x \in Wallets : ~Makes(new, x)
      BY <1>4 DEF Sound, Makes
    <2>3. \A p \in Orgs, u \in User : Announces(new, p, u) => Announces(requests[c], p, u)
      BY <1>4 DEF Announces
    <2> QED BY <1>2, <1>3, <2>1, <2>2, <2>3, StepOfOneKeeps
  <1>5. CASE Goto(c, "idle")
    BY <1>2, <1>3, <1>5, MoveKeeps DEF Steps
  <1>6. ASSUME NEW w \in requests[c].todo,
               requests' = [requests EXCEPT ![c].todo = @ \ {w}]
        PROVE  MembershipInv'
    <2> DEFINE new == [requests[c] EXCEPT !.todo = requests[c].todo \ {w}]
    <2>1. /\ new \in Request /\ new.organization = requests[c].organization
          /\ new.todo = requests[c].todo \ {w} /\ new.step = "next_contributor"
      BY <1>1 DEF Request
    <2>2. requests' = [requests EXCEPT ![c] = new]
      BY <1>6
    <2> HIDE DEF new
    <2> QED BY <1>4, <2>1, <2>2
  <1>7. ASSUME NEW w \in requests[c].todo, NEW i \in 1..users[w],
               requests' = [requests EXCEPT ![c].todo = @ \ {w}, ![c].user = <<w, i>>,
                                            ![c].step = "create_member"]
        PROVE  MembershipInv'
    <2> DEFINE new == [requests[c] EXCEPT !.todo = requests[c].todo \ {w}, !.user = <<w, i>>,
                                          !.step = "create_member"]
    <2>1. w \in Wallets /\ <<w, i>> \in User
      BY <1>1, RowsAreUsers
    <2>2. /\ new \in Request /\ new.organization = requests[c].organization
          /\ new.todo = requests[c].todo \ {w} /\ new.step = "create_member"
          /\ new.user = <<w, i>>
      BY <1>1, <2>1 DEF Request
    <2>3. requests' = [requests EXCEPT ![c] = new]
      BY <1>1, <1>7 DEF RequestsSound
    <2>4. new.user[1] = w /\ new.user \in User
      BY <2>1, <2>2
    <2> HIDE DEF new
    <2> QED BY <1>4, <2>2, <2>3, <2>4
  <1> QED BY <1>5, <1>6, <1>7 DEF NextContributor

-----------------------------------------------------------------------------
(* Every step keeps the invariant, and no member ceases to be one. *)
THEOREM MembershipStep ==
    MembershipInv /\ [Next]_vars
      => MembershipInv' /\ \A o \in Orgs, u \in User : members'[o][u] >= members[o][u]
  <1> SUFFICES ASSUME MembershipInv, [Next]_vars
               PROVE  MembershipInv' /\ \A o \in Orgs, u \in User :
                                          members'[o][u] >= members[o][u]
    OBVIOUS
  <1>0. /\ RowsTypeOK
        /\ UNCHANGED members => \A o \in Orgs, u \in User : members'[o][u] >= members[o][u]
    BY DEF MembershipInv, RowsTypeOK
  <1>1. ASSUME NEW c \in Clients, Submit(c)
        PROVE  MembershipInv' /\ UNCHANGED members
    BY <1>1, SubmitKeeps DEF Submit, StartSignIn, StartListProjects, StartJoin, StartCreate,
       StartListMembers, StartPropose
  <1>2. ASSUME NEW c \in Clients, Process(c)
        PROVE  MembershipInv' /\ \A o \in Orgs, u \in User : members'[o][u] >= members[o][u]
    <2>1. CASE FindUser(c) \/ FindAccount(c) \/ CreateAccount(c)
      BY <1>0, <2>1, FindUserKeeps DEF FindUser, FindAccount, CreateAccount
    <2>2. CASE CreateUser(c)
      BY <1>0, <2>2, CreateUserKeeps DEF CreateUser
    <2>3. CASE FindOrganization(c)
      BY <1>0, <2>3, FindOrganizationKeeps DEF FindOrganization
    <2>4. CASE SaveOrganization(c)
      BY <2>4, SaveOrganizationKeeps
    <2>5. CASE FindMember(c)
      BY <1>0, <2>5, FindMemberKeeps DEF FindMember
    <2>6. CASE CreateMember(c)
      BY <2>6, CreateMemberKeeps
    <2>7. CASE ReadOrganization(c)
      BY <1>0, <2>7, ReadOrganizationKeeps DEF ReadOrganization
    <2>8. CASE NextContributor(c)
      BY <1>0, <2>8, NextContributorKeeps DEF NextContributor
    <2> QED BY <1>2, <2>1, <2>2, <2>3, <2>4, <2>5, <2>6, <2>7, <2>8 DEF Process
  <1>3. ASSUME NEW c \in Clients, Interrupt(c)
        PROVE  MembershipInv' /\ UNCHANGED members
    <2>1. /\ Goto(c, "idle") /\ faults < MaxFaults /\ faults' = faults + 1
          /\ UNCHANGED <<users, accounts, organizations, members, contributors>>
      BY <1>3 DEF Interrupt
    <2>2. RowsTypeOK'
      BY <1>0, <2>1, MembershipAssumption DEF RowsTypeOK
    <2> QED BY <2>1, <2>2, MoveKeeps DEF Steps
  <1>4. ASSUME NEW o \in Orgs, NEW w \in Wallets, Elect(o, w)
        PROVE  MembershipInv' /\ UNCHANGED members
    <2>1. /\ contributors' = [contributors EXCEPT ![o] = contributors[o] \cup {w}]
          /\ UNCHANGED <<users, accounts, organizations, members, requests, faults>>
      BY <1>4 DEF Elect
    <2>2. RowsTypeOK'
      BY <1>0, <2>1 DEF RowsTypeOK
    <2> QED BY <2>1, <2>2 DEF MembershipInv, RequestsSound, UserRowsBounded, MemberRowsBounded,
               Makers, Announcers
  <1>5. CASE UNCHANGED vars
    BY <1>0, <1>5 DEF vars, MembershipInv, RowsTypeOK, RequestsSound, UserRowsBounded,
       MemberRowsBounded, Makers, Announcers
  <1> QED BY <1>0, <1>1, <1>2, <1>3, <1>4, <1>5 DEF Next

(* The inductive invariant of users and members. *)
THEOREM MembershipInvariant == Spec => []MembershipInv
  BY MembershipInit, MembershipStep, PTL DEF Spec

(* Every reachable state is of its type. *)
THEOREM MembershipTypes == Spec => []TypeOK
  <1>1. ASSUME MembershipInv PROVE TypeOK
    <2>1. RowsTypeOK /\ RequestsSound /\ Cardinality(Clients) \in Nat
      BY <1>1, ClientsCounted DEF MembershipInv
    <2>2. \A w \in Wallets : users[w] \in 0..Cardinality(Clients)
      BY <1>1, <2>1, RowsAreUsers
    <2> QED BY <2>1, <2>2 DEF TypeOK, RowsTypeOK, RequestsSound
  <1> QED BY <1>1, MembershipInvariant, PTL

(* Requests that race make no more rows of one user or one member than may *)
(* run at a time, however often they are tried again.                      *)
THEOREM DuplicatesAreBounded == Spec => []DuplicatesBounded
  <1>1. ASSUME MembershipInv PROVE DuplicatesBounded
    <2>1. \A w \in Wallets :
            Makers(w) = {c \in Clients : Wallet(c) = w /\
               requests[c].step \in {"find_account", "create_account", "create_user"}}
      BY DEF Makers, Makes, Wallet
    <2>2. ASSUME NEW o \in Orgs, NEW u \in User
          PROVE  members[o][u] + Cardinality({c \in Clients :
                   At(c, "create_member") /\ Organization(c) = o /\ requests[c].user = u})
                 <= Cardinality(Clients)
      <3> DEFINE makers == {c \in Clients :
                   At(c, "create_member") /\ Organization(c) = o /\ requests[c].user = u}
      <3>1. /\ makers \subseteq Clients /\ Announcers(o, u) \subseteq Clients
            /\ makers \subseteq Announcers(o, u)
        BY DEF Announcers, Announces, At, Organization
      <3>2. IsFiniteSet(Announcers(o, u)) /\ Cardinality(Announcers(o, u)) \in Nat
        BY <3>1, ClientsCounted
      <3>3. /\ Cardinality(makers) <= Cardinality(Announcers(o, u))
            /\ Cardinality(makers) \in Nat /\ Cardinality(Clients) \in Nat
        BY <3>1, <3>2, FS_Subset, ClientsCounted
      <3>4. /\ members[o][u] \in Nat
            /\ members[o][u] + Cardinality(Announcers(o, u)) <= Cardinality(Clients)
        BY <1>1 DEF MembershipInv, RowsTypeOK, MemberRowsBounded
      <3> QED BY <3>2, <3>3, <3>4
    <2>3. UserRowsBounded
      BY <1>1 DEF MembershipInv
    <2> QED BY <2>1, <2>2, <2>3 DEF DuplicatesBounded, UserRowsBounded
  <1> QED BY <1>1, MembershipInvariant, PTL

(* No save of an organization displaces a member, whatever ran before.     *)
THEOREM MembersAreKept == Spec => MembersStay
  <1>1. ASSUME MembershipInv, [Next]_vars
        PROVE  [\A o \in Orgs, u \in User : members'[o][u] >= members[o][u]]_vars
    BY <1>1, MembershipStep
  <1> QED BY <1>1, MembershipInvariant, PTL DEF Spec, MembersStay

-----------------------------------------------------------------------------
(***************************************************************************)
(* The cached answers.                                                     *)
(***************************************************************************)

(* What may keep an answer from reflecting a change.                       *)
Cause(j, k) ==
    \/ changes[j].news = "unheard"
    \/ WillReach(j, k)
    \/ changes[j].source = "rows" /\ k \notin {"organization", "organizations"}

(* The sources a request has been to. *)
HasRead(q) == MadeFrom(q.key) \ ToSet(q.left)

(* A clear that is under way follows a change that every node shows, and   *)
(* a request that no clear overtook lacks a change of a source it has been *)
(* to for the reasons an entry may.                                        *)
NewsOfTheVisible ==
    \A j \in DOMAIN changes : ~changes[j].visible => changes[j].news # "clearing"

ReadsHaveCause ==
    \A r \in Requests : reads[r] # None /\ ~reads[r].overtaken =>
        \A j \in ChangesOf(HasRead(reads[r])) \ reads[r].value : Cause(j, reads[r].key)

(* What the answers are made from. *)
Sources == {"chain", "rows", "wallet", "market"}

(* A state is of its type; that of every request is spelled out.           *)
CacheTypes ==
    /\ changes \in Seq(Change) /\ Len(changes) <= MaxChanges
    /\ entries \in [Keys -> Entry \cup {None}]
    /\ reads \in [Requests -> Read \cup {None}]
    /\ socket \in {"connecting", "open", "closed"}
    /\ process \in {"starting", "listening"}
    /\ process = "listening" => socket # "connecting"
    /\ losses \in 0..MaxLosses

CacheInv == CacheTypes /\ NewsOfTheVisible /\ ReadsHaveCause /\ StaleHasCause

(* What an answer has been made from, as a request goes along its plan.    *)
LEMMA PlanKnown ==
    ASSUME NEW k \in DOMAIN Plan
    PROVE  Plan[k] \in Seq(Sources)
  <1>1. /\ <<"chain", "rows">> \in Seq(Sources) /\ <<"rows", "chain">> \in Seq(Sources)
        /\ <<"chain">> \in Seq(Sources) /\ <<"wallet">> \in Seq(Sources)
        /\ <<"market">> \in Seq(Sources)
    BY DEF Sources
  <1>2. Plan[k] \in {<<"chain", "rows">>, <<"rows", "chain">>, <<"chain">>, <<"wallet">>,
                     <<"market">>}
    BY DEF Plan, OrganizationDetails, Organizations, Proposals, OrganizationMembers,
       OrganizationBalance, UserBalance, TokenPrice
  <1> QED BY <1>1, <1>2

(* The first of the sources that are left, and the others. *)
LEMMA FirstRead ==
    ASSUME NEW s \in Seq(Sources), s # <<>>
    PROVE  /\ Head(s) \in Sources /\ Tail(s) \in Seq(Sources)
           /\ ToSet(s) \subseteq {Head(s)} \cup ToSet(Tail(s))
  <1>1. \A i \in DOMAIN s : i = 1 \/ (i - 1 \in DOMAIN Tail(s) /\ s[i] = Tail(s)[i - 1])
    OBVIOUS
  <1>2. Head(s) \in Sources /\ Tail(s) \in Seq(Sources)
    OBVIOUS
  <1>3. s[1] = Head(s)
    OBVIOUS
  <1>4. ASSUME NEW i \in DOMAIN s PROVE s[i] \in {Head(s)} \cup ToSet(Tail(s))
    BY <1>1, <1>3 DEF ToSet
  <1> QED BY <1>2, <1>4 DEF ToSet

(* Whatever kept an answer of K from reflecting a change still does, and   *)
(* something keeps it from reflecting a new one.                           *)
CausesLast(K) ==
    /\ DOMAIN changes \subseteq DOMAIN changes'
    /\ \A j \in DOMAIN changes : changes'[j].source = changes[j].source
    /\ \A j \in DOMAIN changes, k \in K : Cause(j, k) => Cause(j, k)'
    /\ \A j \in DOMAIN changes' \ DOMAIN changes, k \in K : Cause(j, k)'

(* What is known of a change. *)
LEMMA ChangeIs ==
    ASSUME CacheTypes, NEW j \in DOMAIN changes
    PROVE  /\ changes[j] \in Change /\ j \in 1..MaxChanges
  BY CacheAssumption DEF CacheTypes

(* What a request can read is a set of changes. *)
LEMMA DataAreChanges ==
    ASSUME CacheTypes, NEW sources
    PROVE  ChangesOf(sources) \in Datum
  BY ChangeIs DEF ChangesOf, Datum

(* Changes stay a sequence when what is known of each of them moves on.    *)
LEMMA ChangesRewritten ==
    ASSUME CacheTypes, NEW f \in [DOMAIN changes -> Change]
    PROVE  f \in Seq(Change) /\ DOMAIN f = DOMAIN changes /\ Len(f) = Len(changes)
  <1>1. Len(changes) \in Nat /\ DOMAIN changes = 1..Len(changes)
    BY DEF CacheTypes
  <1> QED BY <1>1

(* A request goes on as it was or is overtaken or over, an entry stays or  *)
(* goes; K are the answers whose causes last.                              *)
LEMMA CausesKept ==
    ASSUME CacheInv, NEW K \in SUBSET Keys, CausesLast(K),
           \A r \in Requests :
               \/ reads'[r] = None
               \/ reads'[r].overtaken
               \/ reads'[r] = reads[r] /\ reads[r].key \in K,
           \A k \in Keys :
               \/ entries'[k] = None
               \/ /\ k \in K /\ entries[k] # None
                  /\ entries'[k].value = entries[k].value
                  /\ entries'[k].overtaken = entries[k].overtaken
    PROVE  ReadsHaveCause' /\ StaleHasCause'
  <1>1. ReadsHaveCause'
    <2> SUFFICES ASSUME NEW r \in Requests, reads'[r] # None, ~reads'[r].overtaken,
                        NEW j \in ChangesOf(HasRead(reads[r]))', j \notin reads'[r].value
                 PROVE  Cause(j, reads[r].key)'
      BY DEF ReadsHaveCause
    <2>1. reads'[r] = reads[r] /\ reads[r].key \in K
      OBVIOUS
    <2>2. CASE j \in DOMAIN changes
      <3>1. j \in ChangesOf(HasRead(reads[r]))
        BY <2>1, <2>2 DEF ChangesOf, CausesLast, HasRead
      <3>2. Cause(j, reads[r].key)
        BY <2>1, <3>1 DEF CacheInv, ReadsHaveCause
      <3> QED BY <2>1, <2>2, <3>2 DEF CausesLast, Cause, WillReach
    <2>3. CASE j \notin DOMAIN changes
      BY <2>1, <2>3 DEF ChangesOf, CausesLast, Cause, WillReach
    <2> QED BY <2>2, <2>3
  <1>2. StaleHasCause'
    <2> SUFFICES ASSUME NEW k \in Keys, entries'[k] # None, ~entries'[k].overtaken,
                        NEW j \in ChangesOf(MadeFrom(k))', j \notin entries'[k].value
                 PROVE  Cause(j, k)'
      BY DEF StaleHasCause, Missing, Cause
    <2>1. k \in K /\ entries[k] # None /\ entries'[k].value = entries[k].value
                  /\ ~entries[k].overtaken
      OBVIOUS
    <2>2. CASE j \in DOMAIN changes
      <3>1. j \in ChangesOf(MadeFrom(k))
        BY <2>2 DEF ChangesOf, CausesLast
      <3>2. Cause(j, k)
        BY <2>1, <3>1 DEF CacheInv, StaleHasCause, Missing, Cause
      <3> QED BY <2>1, <2>2, <3>2 DEF CausesLast, Cause, WillReach
    <2>3. CASE j \notin DOMAIN changes
      BY <2>1, <2>3 DEF ChangesOf, CausesLast, Cause, WillReach
    <2> QED BY <2>2, <2>3
  <1> QED BY <1>1, <1>2

(* Something changes: nobody hears of it, its news is sent, or it is a     *)
(* join, which clears the two answers it is not excused for.               *)
LEMMA HappenKeeps ==
    ASSUME CacheInv, NEW source \in Sources, NEW news, NEW left \in SUBSET Keys,
           Happen(source, news, left),
           \/ news \in {"sent", "unheard"}
           \/ /\ news = "clearing" /\ source = "rows"
              /\ left = Keys \cap {"organization", "organizations"},
           UNCHANGED <<entries, reads, socket, process, losses>>
    PROVE  CacheInv'
  <1> DEFINE new == [source |-> source, visible |-> source # "chain", news |-> news, left |-> left]
  <1>1. new \in Change
    BY DEF Change, Sources
  <1>2. /\ changes \in Seq(Change) /\ changes' = Append(changes, new)
        /\ Len(changes) < MaxChanges
    BY DEF Happen, CacheInv, CacheTypes
  <1>3. /\ changes' \in Seq(Change) /\ Len(changes') <= MaxChanges
        /\ DOMAIN changes' = DOMAIN changes \cup {Len(changes) + 1}
        /\ Len(changes) + 1 \notin DOMAIN changes
        /\ \A j \in DOMAIN changes : changes'[j] = changes[j]
        /\ changes'[Len(changes) + 1] = new
    BY <1>1, <1>2, CacheAssumption DEF CacheInv, CacheTypes
  <1>4. CacheTypes'
    BY <1>3 DEF CacheInv, CacheTypes
  <1>5. NewsOfTheVisible'
    <2>1. ~new.visible => new.news # "clearing"
      OBVIOUS
    <2> QED BY <1>3, <2>1 DEF CacheInv, NewsOfTheVisible
  <1>6. \A j \in DOMAIN changes' \ DOMAIN changes, k \in Keys : Cause(j, k)'
    BY <1>3 DEF Cause, WillReach
  <1>7. CausesLast(Keys)
    BY <1>3, <1>6 DEF CausesLast, Cause, WillReach
  <1>8. \A r \in Requests : reads[r] = None \/ reads[r].key \in Keys
    BY DEF CacheInv, CacheTypes, Read
  <1>9. ReadsHaveCause' /\ StaleHasCause'
    BY <1>7, <1>8, CausesKept
  <1> QED BY <1>4, <1>5, <1>9 DEF CacheInv

(* News moves on, or a node catches up. *)
LEMMA NewsMove ==
    ASSUME CacheInv, changes' \in [DOMAIN changes -> Change],
           \A j \in DOMAIN changes :
               /\ changes'[j].source = changes[j].source
               /\ \/ changes'[j].news = changes[j].news /\ changes'[j].left = changes[j].left
                  \/ changes'[j].news \in {"waiting", "unheard"}
               /\ changes'[j].visible = changes[j].visible \/ changes'[j].visible
    PROVE  /\ changes' \in Seq(Change) /\ Len(changes') <= MaxChanges
           /\ NewsOfTheVisible' /\ CausesLast(Keys)
  <1>1. /\ Len(changes') = Len(changes) /\ DOMAIN changes' = DOMAIN changes
        /\ changes' \in Seq(Change)
    BY ChangesRewritten DEF CacheInv
  <1> QED BY <1>1 DEF CacheInv, CacheTypes, NewsOfTheVisible, CausesLast, Cause, WillReach

(* A node catches up. *)
LEMMA CatchUpKeeps ==
    ASSUME CacheInv, NEW j \in DOMAIN changes, CatchUp(j)
    PROVE  CacheInv'
  <1>1. changes' = [i \in DOMAIN changes |->
                      IF i = j THEN [changes[j] EXCEPT !.visible = TRUE] ELSE changes[i]]
    BY DEF CatchUp
  <1>2. changes' \in [DOMAIN changes -> Change]
    BY <1>1, ChangeIs DEF CacheInv, Change
  <1>3. NewsOfTheVisible' /\ CausesLast(Keys) /\ Len(changes') <= MaxChanges
    BY <1>1, <1>2, ChangeIs, NewsMove DEF CacheInv, Change
  <1>4. CacheTypes'
    BY <1>2, <1>3, ChangesRewritten DEF CatchUp, CacheInv, CacheTypes
  <1>5. ReadsHaveCause' /\ StaleHasCause'
    BY <1>3, CausesKept DEF CatchUp, CacheInv, CacheTypes, Read
  <1> QED BY <1>3, <1>4, <1>5 DEF CacheInv

(* The news arrives, and can be read or cannot. *)
LEMMA HandleEventsKeeps ==
    ASSUME CacheInv, NEW j \in DOMAIN changes, NEW message, HandleEvents(j, message)
    PROVE  CacheInv'
  <1>1. PICK news \in {"waiting", "unheard"} : changes' = [changes EXCEPT ![j].news = news]
    BY DEF HandleEvents
  <1>2. changes' = [i \in DOMAIN changes |->
                      IF i = j THEN [changes[j] EXCEPT !.news = news] ELSE changes[i]]
    BY <1>1
  <1>3. changes' \in [DOMAIN changes -> Change]
    BY <1>2, ChangeIs DEF CacheInv, Change
  <1>4. NewsOfTheVisible' /\ CausesLast(Keys) /\ Len(changes') <= MaxChanges
    BY <1>2, <1>3, ChangeIs, NewsMove DEF CacheInv, Change
  <1>5. CacheTypes'
    BY <1>3, <1>4, ChangesRewritten DEF HandleEvents, CacheInv, CacheTypes
  <1>6. ReadsHaveCause' /\ StaleHasCause'
    BY <1>4, CausesKept DEF HandleEvents, CacheInv, CacheTypes, Read
  <1> QED BY <1>4, <1>5, <1>6 DEF CacheInv

(* News that is lost is a cause for good. *)
LEMMA ForgetKeeps ==
    ASSUME CacheInv, NEW lost, Forget(lost)
    PROVE  /\ changes' \in Seq(Change) /\ Len(changes') <= MaxChanges
           /\ NewsOfTheVisible' /\ CausesLast(Keys)
  <1>1. changes' = [i \in DOMAIN changes |->
                      IF i \in lost THEN [changes[i] EXCEPT !.news = "unheard", !.left = {}]
                      ELSE changes[i]]
    BY DEF Forget
  <1>2. changes' \in [DOMAIN changes -> Change]
    BY <1>1, ChangeIs DEF CacheInv, Change
  <1> QED BY <1>1, <1>2, ChangeIs, NewsMove DEF CacheInv, Change

(* A clear lists the keys there are; requests for others are overtaken.    *)
LEMMA ClearCacheKeeps ==
    ASSUME CacheInv, NEW j \in DOMAIN changes, ClearCache(j)
    PROVE  CacheInv'
  <1> DEFINE keys == {k \in Keys : ~Miss(k)}
  <1>1. changes' = [i \in DOMAIN changes |->
                      IF i = j THEN [changes[j] EXCEPT !.news = "clearing", !.left = keys]
                      ELSE changes[i]]
    BY DEF ClearCache
  <1>2. changes' \in [DOMAIN changes -> Change]
    BY <1>1, ChangeIs DEF CacheInv, Change
  <1>3. changes' \in Seq(Change) /\ Len(changes') <= MaxChanges
    BY <1>2, ChangesRewritten DEF CacheInv, CacheTypes
  <1>4. Overtake(Keys \ keys) /\ reads' \in [Requests -> Read \cup {None}]
    BY DEF ClearCache, Overtake, CacheInv, CacheTypes, Read
  <1>5. NewsOfTheVisible'
    BY <1>1, ChangeIs DEF ClearCache, CacheInv, NewsOfTheVisible, Change
  <1>6. CausesLast(keys)
    BY <1>1, ChangeIs DEF CacheInv, CausesLast, Cause, WillReach, Change
  <1>7. \A r \in Requests :
           \/ reads'[r] = None
           \/ reads'[r].overtaken
           \/ reads'[r] = reads[r] /\ reads[r].key \in keys
    BY <1>4 DEF Overtake, CacheInv, CacheTypes, Read
  <1>8. ReadsHaveCause' /\ StaleHasCause'
    BY <1>6, <1>7, CausesKept DEF ClearCache, Miss
  <1>9. CacheTypes'
    BY <1>3, <1>4 DEF ClearCache, CacheInv, CacheTypes
  <1> QED BY <1>5, <1>8, <1>9 DEF CacheInv

(* A clear deletes a key, and overtakes who reads for it. *)
LEMMA DeleteKeyKeeps ==
    ASSUME CacheInv, NEW j \in DOMAIN changes, NEW k \in Keys, DeleteKey(j, k)
    PROVE  CacheInv'
  <1>1. changes' = [i \in DOMAIN changes |->
                      IF i = j THEN [changes[j] EXCEPT !.left = @ \ {k}] ELSE changes[i]]
    BY DEF DeleteKey
  <1>2. changes' \in [DOMAIN changes -> Change]
    BY <1>1, ChangeIs DEF CacheInv, Change
  <1>3. changes' \in Seq(Change) /\ Len(changes') <= MaxChanges
    BY <1>2, ChangesRewritten DEF CacheInv, CacheTypes
  <1>4. Overtake({k}) /\ reads' \in [Requests -> Read \cup {None}]
    BY DEF DeleteKey, Overtake, CacheInv, CacheTypes, Read
  <1>5. NewsOfTheVisible'
    BY <1>1, ChangeIs DEF CacheInv, NewsOfTheVisible, Change
  <1>6. CausesLast(Keys \ {k})
    BY <1>1, ChangeIs DEF CacheInv, CausesLast, Cause, WillReach, Change
  <1>7. \A r \in Requests :
           \/ reads'[r] = None
           \/ reads'[r].overtaken
           \/ reads'[r] = reads[r] /\ reads[r].key \in Keys \ {k}
    BY <1>4 DEF Overtake, CacheInv, CacheTypes, Read
  <1>8. entries' \in [Keys -> Entry \cup {None}] /\ entries'[k] = None
        /\ \A i \in Keys \ {k} : entries'[i] = entries[i]
    BY DEF DeleteKey, CacheInv, CacheTypes
  <1>9. ReadsHaveCause' /\ StaleHasCause'
    BY <1>6, <1>7, <1>8, CausesKept
  <1>10. CacheTypes'
    BY <1>3, <1>4, <1>8 DEF DeleteKey, CacheInv, CacheTypes
  <1> QED BY <1>5, <1>9, <1>10 DEF CacheInv

(* A request that starts has read nothing. *)
LEMMA StartReadKeeps ==
    ASSUME CacheInv, NEW r \in Requests, NEW k \in Keys, StartRead(r, k)
    PROVE  CacheInv'
  <1> DEFINE q == [key |-> k, left |-> Plan[k], value |-> {}, overtaken |-> FALSE]
  <1>1. q \in Read
    BY PlanKnown, CacheAssumption DEF CacheInv, CacheTypes, Read, Datum, Sources
  <1>2. reads' \in [Requests -> Read \cup {None}]
        /\ \A i \in Requests : reads'[i] = IF i = r THEN q ELSE reads[i]
    BY <1>1 DEF StartRead, CacheInv, CacheTypes
  <1>3. HasRead(q) = {}
    BY DEF HasRead, MadeFrom
  <1>4. ReadsHaveCause'
    BY <1>2, <1>3 DEF StartRead, CacheInv, ReadsHaveCause, ChangesOf, Cause, WillReach, HasRead
  <1> QED BY <1>2, <1>4 DEF StartRead, CacheInv, CacheTypes, NewsOfTheVisible, StaleHasCause,
         WillReach, Missing, ChangesOf

(* A price that is asked for is what its entry holds. *)
LEMMA GetTokenPriceKeeps ==
    ASSUME CacheInv, NEW r \in Requests, GetTokenPrice(r)
    PROVE  CacheInv'
  <1> DEFINE e == entries["price"]
             q == [key |-> "price", left |-> <<>>, value |-> e.value, overtaken |-> e.overtaken]
  <1>1. "price" \in Keys /\ e # None /\ e \in Entry
    BY DEF GetTokenPrice, Miss, CacheInv, CacheTypes
  <1>2. q \in Read
    BY <1>1 DEF Read, Entry
  <1>3. reads' \in [Requests -> Read \cup {None}]
        /\ \A i \in Requests : reads'[i] = IF i = r THEN q ELSE reads[i]
    BY <1>2 DEF GetTokenPrice, CacheInv, CacheTypes
  <1>4. HasRead(q) \subseteq MadeFrom("price")
    BY DEF HasRead
  <1>5. ASSUME ~e.overtaken
        PROVE  \A j \in ChangesOf(HasRead(q)) \ q.value : Cause(j, "price")
    BY <1>1, <1>4, <1>5 DEF CacheInv, StaleHasCause, Missing, Cause, ChangesOf
  <1>6. ReadsHaveCause'
    BY <1>3, <1>5 DEF GetTokenPrice, CacheInv, ReadsHaveCause, ChangesOf, Cause, WillReach,
       HasRead
  <1> QED BY <1>3, <1>6 DEF GetTokenPrice, CacheInv, CacheTypes, NewsOfTheVisible,
         StaleHasCause, WillReach, Missing, ChangesOf

(* What a read leaves out is not visible yet, so its news is yet to clear. *)
LEMMA ReadSourceKeeps ==
    ASSUME CacheInv, NEW r \in Requests, ReadSource(r)
    PROVE  CacheInv'
  <1> DEFINE read == {j \in ChangesOf({Head(reads[r].left)}) : changes[j].visible}
             q == [reads[r] EXCEPT !.left = Tail(@), !.value = @ \cup read]
  <1>1. reads[r] \in Read /\ reads[r].left \in Seq(Sources) /\ reads[r].left # <<>>
    BY DEF ReadSource, CacheInv, CacheTypes, Read, Sources
  <1>2. /\ Tail(reads[r].left) \in Seq(Sources)
        /\ ToSet(reads[r].left) \subseteq
             {Head(reads[r].left)} \cup ToSet(Tail(reads[r].left))
    BY <1>1, FirstRead
  <1>3. read \in Datum
    BY DataAreChanges DEF CacheInv, Datum
  <1>4. /\ q \in Read /\ q.key = reads[r].key /\ q.overtaken = reads[r].overtaken
        /\ q.left = Tail(reads[r].left) /\ q.value = reads[r].value \cup read
    BY <1>1, <1>2, <1>3 DEF Read, Datum, Sources
  <1>5. reads' \in [Requests -> Read \cup {None}]
        /\ \A i \in Requests : reads'[i] = IF i = r THEN q ELSE reads[i]
    BY <1>4 DEF ReadSource, CacheInv, CacheTypes
  <1>6. HasRead(q) \subseteq HasRead(reads[r]) \cup {Head(reads[r].left)}
    BY <1>2, <1>4 DEF HasRead
  <1>7. ASSUME ~reads[r].overtaken, NEW j \in ChangesOf(HasRead(q)) \ q.value
        PROVE  Cause(j, q.key)
    <2>1. CASE changes[j].source \in HasRead(reads[r])
      BY <1>4, <1>7, <2>1 DEF CacheInv, ReadsHaveCause, ChangesOf, ReadSource
    <2>2. CASE changes[j].source = Head(reads[r].left)
      <3>1. j \in DOMAIN changes /\ ~changes[j].visible
        BY <1>4, <1>7, <2>2 DEF ChangesOf
      <3> QED BY <3>1, ChangeIs DEF CacheInv, NewsOfTheVisible, Cause, WillReach, Change
    <2> QED BY <1>6, <1>7, <2>1, <2>2 DEF ChangesOf
  <1>8. UNCHANGED changes
    BY DEF ReadSource
  <1> HIDE DEF q
  <1>9. ASSUME NEW i \in Requests, reads'[i] # None, ~reads'[i].overtaken,
               NEW j \in ChangesOf(HasRead(reads'[i])) \ reads'[i].value
        PROVE  Cause(j, reads'[i].key)
    <2>1. CASE i = r
      BY <1>4, <1>5, <1>7, <1>9, <2>1
    <2>2. CASE i # r
      BY <1>5, <1>9, <2>2 DEF CacheInv, ReadsHaveCause
    <2> QED BY <2>1, <2>2
  <1>10. ReadsHaveCause'
    BY <1>8, <1>9 DEF ReadsHaveCause, ChangesOf, Cause, WillReach, HasRead
  <1> QED BY <1>5, <1>10 DEF ReadSource, CacheInv, CacheTypes, NewsOfTheVisible, StaleHasCause,
         WillReach, Missing, ChangesOf

(* An answer is stored when its request has been to all sources. *)
LEMMA StoreAnswerKeeps ==
    ASSUME CacheInv, NEW r \in Requests, StoreAnswer(r)
    PROVE  CacheInv'
  <1> DEFINE q == reads[r]
             e == [value |-> q.value, overtaken |-> q.overtaken, old |-> q.key \notin Restored]
  <1>1. q # None /\ q \in Read /\ q.left = <<>> /\ q.key \in Keys
    BY DEF StoreAnswer, CacheInv, CacheTypes, Read
  <1>2. e \in Entry
    BY <1>1 DEF Read, Entry
  <1>3. entries' \in [Keys -> Entry \cup {None}]
        /\ \A k \in Keys : entries'[k] = IF k = q.key THEN e ELSE entries[k]
    BY <1>1, <1>2 DEF StoreAnswer, CacheInv, CacheTypes
  <1>4. reads' \in [Requests -> Read \cup {None}]
        /\ \A i \in Requests : reads'[i] = IF i = r THEN None ELSE reads[i]
    BY DEF StoreAnswer, CacheInv, CacheTypes
  <1>5. HasRead(q) = MadeFrom(q.key)
    BY <1>1 DEF HasRead, ToSet
  <1>6. ASSUME ~q.overtaken
        PROVE  \A j \in Missing(q.key, q.value) : Cause(j, q.key)
    BY <1>1, <1>5, <1>6 DEF CacheInv, ReadsHaveCause, Missing
  <1>7. StaleHasCause'
    BY <1>3, <1>6 DEF StoreAnswer, CacheInv, StaleHasCause, Missing, ChangesOf, Cause,
       WillReach
  <1>8. ReadsHaveCause'
    BY <1>4 DEF StoreAnswer, CacheInv, ReadsHaveCause, ChangesOf, Cause, WillReach
  <1> QED BY <1>3, <1>4, <1>7, <1>8 DEF StoreAnswer, CacheInv, CacheTypes, NewsOfTheVisible

(* Answers and requests come to their end, or grow old. *)
LEMMA EndsKeep ==
    ASSUME CacheInv,
           \/ \E r \in Requests : GiveUp(r)
           \/ \E k \in Keys : GrowOld(k) \/ Expire(k)
    PROVE  CacheInv'
  <1>1. CausesLast(Keys) /\ NewsOfTheVisible'
    BY DEF GiveUp, GrowOld, Expire, CausesLast, Cause, WillReach, CacheInv, NewsOfTheVisible
  <1>2. /\ reads' \in [Requests -> Read \cup {None}]
        /\ \A r \in Requests : reads'[r] = None \/ reads'[r] = reads[r]
    BY DEF GiveUp, GrowOld, Expire, CacheInv, CacheTypes
  <1>3. /\ entries' \in [Keys -> Entry \cup {None}]
        /\ \A k \in Keys : \/ entries'[k] = None
                           \/ /\ entries[k] # None
                              /\ entries'[k].value = entries[k].value
                              /\ entries'[k].overtaken = entries[k].overtaken
    <2>1. ASSUME NEW k \in Keys, GrowOld(k)
          PROVE  /\ entries[k] \in Entry /\ entries[k] # None
                 /\ [entries[k] EXCEPT !.old = TRUE] \in Entry
                 /\ [entries[k] EXCEPT !.old = TRUE].value = entries[k].value
                 /\ [entries[k] EXCEPT !.old = TRUE].overtaken = entries[k].overtaken
      BY <2>1 DEF GrowOld, Miss, CacheInv, CacheTypes, Entry
    <2> QED BY <2>1 DEF GiveUp, GrowOld, Expire, CacheInv, CacheTypes
  <1>4. ReadsHaveCause' /\ StaleHasCause'
    BY <1>1, <1>2, <1>3, CausesKept DEF CacheInv, CacheTypes, Read
  <1>5. CacheTypes'
    BY <1>2, <1>3 DEF GiveUp, GrowOld, Expire, CacheInv, CacheTypes
  <1> QED BY <1>1, <1>4, <1>5 DEF CacheInv

(* The socket and the process come and go. *)
LEMMA ProcessKeeps ==
    ASSUME CacheInv,
           OpenSocket \/ StartMonitoring \/ CloseSocket \/ Restart
    PROVE  CacheInv'
  <1>1. /\ changes' \in Seq(Change) /\ Len(changes') <= MaxChanges
        /\ NewsOfTheVisible' /\ CausesLast(Keys)
    <2>1. CASE OpenSocket \/ StartMonitoring
      BY <2>1 DEF OpenSocket, StartMonitoring, CausesLast, Cause, WillReach, CacheInv,
         CacheTypes, NewsOfTheVisible
    <2>2. CASE CloseSocket \/ Restart
      BY <2>2, ForgetKeeps DEF CloseSocket, Restart
    <2> QED BY <2>1, <2>2
  <1>2. /\ reads' \in [Requests -> Read \cup {None}]
        /\ \A r \in Requests : reads'[r] = None \/ reads'[r] = reads[r]
    BY DEF OpenSocket, StartMonitoring, CloseSocket, Restart, CacheInv, CacheTypes
  <1>3. UNCHANGED entries
    BY DEF OpenSocket, StartMonitoring, CloseSocket, Restart
  <1>4. ReadsHaveCause' /\ StaleHasCause'
    BY <1>1, <1>2, <1>3, CausesKept DEF CacheInv, CacheTypes, Read
  <1>5. /\ socket' \in {"connecting", "open", "closed"}
        /\ process' \in {"starting", "listening"}
        /\ process' = "listening" => socket' # "connecting"
    BY DEF OpenSocket, StartMonitoring, CloseSocket, Restart, CacheInv, CacheTypes
  <1>6. losses' \in 0..MaxLosses
    BY CacheAssumption DEF OpenSocket, StartMonitoring, CloseSocket, Restart, CacheInv,
       CacheTypes
  <1> QED BY <1>1, <1>2, <1>3, <1>4, <1>5, <1>6 DEF CacheInv, CacheTypes

(* The invariant holds at first, *)
LEMMA CacheStarts ==
    ASSUME CacheInit
    PROVE  CacheInv
  <1>1. CacheTypes
    BY CacheAssumption DEF CacheInit, CacheTypes
  <1> QED BY <1>1 DEF CacheInit, CacheInv, NewsOfTheVisible, ReadsHaveCause, StaleHasCause

(* and after every step. *)
LEMMA CacheStep == CacheInv /\ [CacheNext]_cacheVars => CacheInv'
  <1> SUFFICES ASSUME CacheInv, [CacheNext]_cacheVars PROVE CacheInv'
    OBVIOUS
  <1>1. CASE Happens
    BY <1>1, HappenKeeps DEF Happens, ExecuteInstruction, StoreRows, JoinOrganization,
       MoveMarket, Sources
  <1>2. CASE \E j \in DOMAIN changes : CatchUp(j) \/ Clear(j)
    BY <1>2, CatchUpKeeps, ClearCacheKeeps, DeleteKeyKeeps DEF Clear
  <1>3. CASE \E j \in DOMAIN changes, message \in SUBSET Sizes \ {{}} :
               HandleEvents(j, message)
    BY <1>3, HandleEventsKeeps
  <1>4. CASE \E r \in Requests, k \in Keys : StartRead(r, k)
    BY <1>4, StartReadKeeps
  <1>5. CASE \E r \in Requests : GetTokenPrice(r) \/ Serve(r)
    BY <1>5, GetTokenPriceKeeps, ReadSourceKeeps, StoreAnswerKeeps, EndsKeep DEF Serve
  <1>6. CASE \E k \in Keys : GrowOld(k) \/ Expire(k)
    BY <1>6, EndsKeep
  <1>7. CASE OpenSocket \/ StartMonitoring \/ CloseSocket \/ Restart
    BY <1>7, ProcessKeeps
  <1>8. CASE UNCHANGED cacheVars
    BY <1>8 DEF cacheVars, CacheInv, CacheTypes, NewsOfTheVisible, ReadsHaveCause,
       StaleHasCause, Missing, ChangesOf, Cause, WillReach
  <1> QED BY <1>1, <1>2, <1>3, <1>4, <1>5, <1>6, <1>7, <1>8 DEF CacheNext

(* The inductive invariant of the cached answers. *)
THEOREM CacheInvariant == CacheSpec => []CacheInv
  <1>1. CacheInit => CacheInv
    BY CacheStarts
  <1>2. CacheInv /\ [CacheNext]_cacheVars => CacheInv'
    BY CacheStep
  <1> QED BY <1>1, <1>2, PTL DEF CacheSpec

(* Every reachable state of the cache, the reads and the socket is of its  *)
(* type.                                                                   *)
THEOREM CachedTypes == CacheSpec => []CacheTypeOK
  <1>1. CacheInv => CacheTypeOK
    BY DEF CacheInv, CacheTypes, CacheTypeOK
  <1> QED BY <1>1, CacheInvariant, PTL

(* An answer that lacks a change lacks it for one of the known reasons,    *)
(* however requests, clears, restarts and closed sockets fall together.    *)
THEOREM StalenessIsExplained == CacheSpec => []StaleHasCause
  <1>1. CacheInv => StaleHasCause
    BY DEF CacheInv
  <1> QED BY <1>1, CacheInvariant, PTL
=============================================================================
