--------------------------- MODULE DemoSeedProofs ---------------------------
(***************************************************************************)
(* Proofs about DemoSeed, for every set of browsers, every list of demo    *)
(* users, movies and follows, and every bound.                             *)
(*                                                                         *)
(* Tables only grow (Grew), so a list that was read stays a prefix of its  *)
(* table and whatever a script found or wrote is still there (ReadsStay).  *)
(* Hence the invariant can say of each script alone what the loops up to   *)
(* its place have achieved (Progress); other scripts' steps keep it        *)
(* (ProgressStays), its own steps advance it by one index, for the loops   *)
(* skip only what needs nothing.  The accounts are the exception: a demo   *)
(* user's registration may lose to somebody else's, and what the loop      *)
(* achieves is that the name or the email is taken (Taken).  That rows are *)
(* unique turns it into "has an account of their own" where it matters.    *)
(***************************************************************************)
EXTENDS DemoSeed, FiniteSetTheorems, TLAPS

\* The account of a demo user or of the viewer.
Own(n) == [name |-> n, email |-> n]

People == Demo \cup {Viewer, Stranger}
Places == {"idle", "users", "register", "registering", "users again", "movies", "create",
           "movies again", "movies read", "review", "follow", "done"}
HasUsers == {"movies", "create", "movies again", "movies read", "review", "follow", "done"}
HasCreated == {"movies again", "movies read", "review", "follow", "done"}

AccountTypes ==
    /\ users \in Seq([name : People, email : People])
    /\ DOMAIN reg = Browsers \cup {Stranger}
    /\ \A c \in Browsers \cup {Stranger} :
          DOMAIN reg[c] = {"step", "name", "email"} /\ reg[c].step \in Auth!Steps

ScriptType(b) ==
    /\ DOMAIN seed[b] = {"at", "i", "users", "movies", "keys", "only", "hurt"}
    /\ seed[b].at \in Places /\ seed[b].i \in Nat \ {0}
    /\ seed[b].users \in 0..Len(users) /\ seed[b].movies \in 0..Len(movies)
    /\ seed[b].only \in BOOLEAN /\ seed[b].hurt \in BOOLEAN
    /\ seed[b].at \in HasCreated \ {"done"} => ~seed[b].only
    /\ seed[b].hurt => faults > 0

SeedTypes ==
    /\ AccountTypes
    /\ movies \in Seq(Range(DemoMovies)) /\ faults \in Nat
    /\ DOMAIN seed = Browsers /\ \A b \in Browsers : ScriptType(b)

\* Who registers what, and so whose the rows are: the stranger's one row comes last in
\* the life of its request.
RequestsAreKnown ==
    /\ \A b \in Browsers : reg[b].step # "idle" => \E n \in Demo : Auth!Row(b) = Own(n)
    /\ reg[Stranger].step # "idle" => Auth!Row(Stranger) \in StrangeRows
RowsAreKnown ==
    /\ Len(users) > 0 /\ users[1] = Own(Viewer)
    /\ \A k \in 1..Len(users) :
          \/ \E n \in Demo \cup {Viewer} : users[k] = Own(n)
          \/ reg[Stranger].step = "ok" /\ users[k] = Auth!Row(Stranger)

AccountsInv == AccountTypes /\ RequestsAreKnown /\ RowsAreKnown /\ AccountsAreUnique /\ AnswersAreTrue

\* Somebody among the first so many users has this name or email.
Taken(n, last) == \E k \in 1..last : users[k].name = n \/ users[k].email = n

\* Who has an account of their own in the list a script has read: what the script can
\* write for them, it must.
Known(b) == {n \in Demo : \E k \in 1..seed[b].users : users[k] = Own(n)} \cup {Viewer}

\* What each loop has done up to its index, and what it leaves to the later ones.
RegisterProgress(b) ==
    /\ At(b, "register") /\ ~seed[b].hurt =>
          \A k \in DOMAIN DemoUsers : k < seed[b].i => Taken(DemoUsers[k], Len(users))
    /\ At(b, "registering") =>
          /\ seed[b].i - 1 \in DOMAIN DemoUsers
          /\ reg[b].step # "idle" /\ Auth!Row(b) = Own(DemoUsers[seed[b].i - 1])
          /\ ~seed[b].hurt =>
                \A k \in DOMAIN DemoUsers : k < seed[b].i - 1 => Taken(DemoUsers[k], Len(users))
    /\ At(b, "users again") /\ ~seed[b].hurt => \A n \in Demo : Taken(n, Len(users))
    /\ seed[b].at \in HasUsers /\ ~seed[b].only =>
          seed[b].users > 0 /\ (~seed[b].hurt => \A n \in Demo : Taken(n, seed[b].users))
CreateProgress(b) ==
    /\ At(b, "create") =>
          \A k \in DOMAIN DemoMovies : k < seed[b].i => DemoMovies[k] \in Range(movies)
    /\ seed[b].at \in HasCreated /\ ~seed[b].only => Range(DemoMovies) \subseteq Range(movies)
Reviewed(b, k) == Key(b, k)[1] \in Known(b) => Key(b, k) \in AllReviews
ReviewProgress(b) ==
    /\ At(b, "movies read") => seed[b].i = 1
    /\ At(b, "review") =>
          \A key \in seed[b].keys : key[1] \in Demo \cup {Viewer} => key \in AllReviews
    /\ At(b, "review") /\ ~seed[b].hurt => \A k \in 1..seed[b].i - 1 : Reviewed(b, k)
    /\ seed[b].at \in {"follow", "done"} /\ ~seed[b].only /\ ~seed[b].hurt =>
          \A k \in 1..MaxReviews(b) : Reviewed(b, k)
Followed(b, k) == Range(Pairs[k]) \subseteq Known(b) => Pairs[k] \in follows
FollowProgress(b) ==
    /\ At(b, "follow") /\ ~seed[b].hurt => \A k \in DOMAIN Pairs : k < seed[b].i => Followed(b, k)
    /\ At(b, "done") /\ ~seed[b].only /\ ~seed[b].hurt => \A k \in DOMAIN Pairs : Followed(b, k)
Progress(b) == RegisterProgress(b) /\ CreateProgress(b) /\ ReviewProgress(b) /\ FollowProgress(b)

SeedInv ==
    /\ SeedTypes /\ AccountsInv
    /\ \A b \in Browsers : Progress(b)

----------------------------------------------------------------------------
(* Lemmas about numbers, sequences and the operators of the model.         *)

LEMMA LeastOf ==
    ASSUME NEW T \in SUBSET Nat, T # {} PROVE \E m \in T : \A j \in T : m <= j
<1> DEFINE R == {ss \in Nat \X Nat : ss[1] < ss[2]}
<1>1. IsWellFoundedOn(R, Nat)
  BY NatLessThanWellFounded DEF OpToRel
<1>2. \A j, m \in Nat : j < m => <<j, m>> \in R
  OBVIOUS
<1> HIDE DEF R
<1>3. PICK m \in T : \A j \in T : <<j, m>> \notin R
  BY <1>1, WFMin
<1>4. \A j \in T : ~(j < m)
  BY <1>2, <1>3
<1> QED BY <1>4

\* What a loop does next is the first thing left, so it has skipped nothing that it must do.
LEMMA FirstIsLeast ==
    ASSUME NEW T \in SUBSET Nat, T # {}
    PROVE  First(T) \in T /\ \A j \in T : First(T) <= j
BY LeastOf DEF First

LEMMA PairsAreTyped ==
    /\ Pairs \in Seq((Demo \cup {Viewer}) \X Demo)
    /\ \A k \in DOMAIN Pairs : Range(Pairs[k]) = {Pairs[k][1], Pairs[k][2]}
<1>1. [k \in DOMAIN DemoUsers |-> <<Viewer, DemoUsers[k]>>] \in Seq((Demo \cup {Viewer}) \X Demo)
  BY DemoAssumption DEF Demo
<1>2. FollowPairs \in Seq((Demo \cup {Viewer}) \X Demo)
  BY DemoAssumption
<1>3. Pairs \in Seq((Demo \cup {Viewer}) \X Demo)
  BY <1>1, <1>2 DEF Pairs
<1>4. \A p \in (Demo \cup {Viewer}) \X Demo : Range(p) = {p[1], p[2]}
  BY DEF Range
<1> QED BY <1>3, <1>4

LEMMA TodoIsTyped ==
    ASSUME SeedTypes, NEW b \in Browsers
    PROVE  /\ MissingUsers(b) \in SUBSET Nat /\ MissingUsers(b) \subseteq DOMAIN DemoUsers
           /\ MissingTitles(b) \in SUBSET Nat /\ MissingTitles(b) \subseteq DOMAIN DemoMovies
           /\ MissingReviews(b) \in SUBSET (Nat \ {0})
           /\ MissingFollows(b) \in SUBSET Nat /\ MissingFollows(b) \subseteq DOMAIN Pairs
<1>1. seed[b].i \in Nat \ {0}
  BY DEF ScriptType, SeedTypes
<1>2. \A S : DemoUsers \in Seq(S) => Len(DemoUsers) \in Nat /\ DOMAIN DemoUsers = 1..Len(DemoUsers)
  OBVIOUS
<1>3. \A S : DemoMovies \in Seq(S) => Len(DemoMovies) \in Nat /\ DOMAIN DemoMovies = 1..Len(DemoMovies)
  OBVIOUS
<1>4. \A S : Pairs \in Seq(S) => Len(Pairs) \in Nat /\ DOMAIN Pairs = 1..Len(Pairs)
  OBVIOUS
<1>5. MissingUsers(b) \in SUBSET Nat /\ MissingUsers(b) \subseteq DOMAIN DemoUsers
  BY <1>1, <1>2, DemoAssumption DEF MissingUsers, Todo
<1>6. MissingTitles(b) \in SUBSET Nat /\ MissingTitles(b) \subseteq DOMAIN DemoMovies
  BY <1>1, <1>3, DemoAssumption DEF MissingTitles, Todo
<1>7. MissingReviews(b) \in SUBSET (Nat \ {0})
  <2>1. MaxReviews(b) \in Int
    BY DemoAssumption DEF MaxReviews, SeedTypes, ScriptType
  <2> QED BY <1>1, <2>1 DEF MissingReviews, Todo
<1>8. MissingFollows(b) \in SUBSET Nat /\ MissingFollows(b) \subseteq DOMAIN Pairs
  BY <1>1, <1>4, PairsAreTyped DEF MissingFollows, Todo
<1> QED BY <1>5, <1>6, <1>7, <1>8

LEMMA DemoIsFinite == \A n \in Demo : \E k \in DOMAIN DemoUsers : DemoUsers[k] = n
BY DEF Demo, Range

\* Nothing is ever removed: a list that was read stays a prefix of its table.
Grew ==
    /\ Len(users) <= Len(users') /\ \A k \in 1..Len(users) : users'[k] = users[k]
    /\ Len(movies) <= Len(movies') /\ Range(movies) \subseteq Range(movies')
    /\ AllReviews \subseteq AllReviews' /\ follows \subseteq follows'

LEMMA RowsGrow ==
    ASSUME SeedTypes, NEW c \in Browsers \cup {Stranger}, Auth!Handle(c)
    PROVE  Len(users) <= Len(users') /\ \A k \in 1..Len(users) : users'[k] = users[k]
<1>1. CASE UNCHANGED users
  BY <1>1 DEF SeedTypes, AccountTypes
<1>2. CASE users' = Append(users, Auth!Row(c))
  BY <1>2 DEF SeedTypes, AccountTypes
<1> QED BY <1>1, <1>2 DEF Auth!Handle, Auth!LookUpEmail, Auth!LookUpName, Auth!CreateUser

LEMMA JoinedSequence ==
    ASSUME NEW S, NEW s \in Seq(S), NEW t \in Seq(S)
    PROVE  /\ s \o t \in Seq(S) /\ Len(s \o t) = Len(s) + Len(t)
           /\ \A k \in 1..Len(s) : (s \o t)[k] = s[k]
           /\ \A k \in 1..Len(t) : (s \o t)[Len(s) + k] = t[k]
OBVIOUS

LEMMA TitlesGrow ==
    ASSUME SeedTypes, NEW t \in Range(DemoMovies), NEW n \in Nat, Insert(t, n)
    PROVE  /\ movies' \in Seq(Range(DemoMovies))
           /\ Len(movies) <= Len(movies') /\ Range(movies) \subseteq Range(movies')
           /\ n > 0 => t \in Range(movies')
<1> DEFINE new == [j \in 1..n |-> t]
<1>1. new \in Seq(Range(DemoMovies)) /\ Len(new) = n
  OBVIOUS
<1>2. movies \in Seq(Range(DemoMovies)) /\ movies' = movies \o new
  BY DEF SeedTypes, Insert
<1>3. \A j \in 1..n : new[j] = t
  OBVIOUS
<1> HIDE DEF new
<1>4. /\ movies' \in Seq(Range(DemoMovies)) /\ Len(movies') = Len(movies) + n
      /\ \A k \in 1..Len(movies) : movies'[k] = movies[k]
      /\ \A k \in 1..n : movies'[Len(movies) + k] = t
  <2> DEFINE joined == movies \o new
  <2>1. /\ joined \in Seq(Range(DemoMovies)) /\ Len(joined) = Len(movies) + n
        /\ \A k \in 1..Len(movies) : joined[k] = movies[k]
        /\ \A k \in 1..n : joined[Len(movies) + k] = new[k]
    <3>1. joined \in Seq(Range(DemoMovies))
      BY <1>1, <1>2, JoinedSequence
    <3>2. Len(joined) = Len(movies) + n
      BY <1>1, <1>2, JoinedSequence
    <3>3. \A k \in 1..Len(movies) : joined[k] = movies[k]
      BY <1>1, <1>2, JoinedSequence
    <3>4. \A k \in 1..n : joined[Len(movies) + k] = new[k]
      BY <1>1, <1>2, JoinedSequence
    <3> QED BY <3>1, <3>2, <3>3, <3>4
  <2>2. movies' = joined
    BY <1>2
  <2> HIDE DEF joined
  <2> QED BY <1>3, <2>1, <2>2
<1>5. Len(movies) \in Nat /\ DOMAIN movies = 1..Len(movies) /\ DOMAIN movies' = 1..Len(movies')
  BY <1>2, <1>4
<1>6. Range(movies) \subseteq Range(movies')
  BY <1>4, <1>5 DEF Range
<1>7. ASSUME n > 0 PROVE t \in Range(movies')
  <2>1. movies'[Len(movies) + 1] = t /\ Len(movies) + 1 \in DOMAIN movies'
    BY <1>4, <1>5, <1>7
  <2> QED BY <2>1 DEF Range
<1> QED BY <1>4, <1>5, <1>6, <1>7

LEMMA ReviewsGrow ==
    ASSUME NEW key, NEW n \in Nat, Post(key, n)
    PROVE  AllReviews' = AllReviews \cup IF n = 0 THEN {} ELSE {key}
BY DEF Post, AllReviews, BagToSet, (+)

\* A POST is carried out once, or goes wrong and is carried out by some of the instances.
LEMMA InstancesAreMany == \A n \in 0..Instances : n \in Nat /\ n <= Instances
BY DemoAssumption

LEMMA CreateCases ==
    ASSUME NEW b, CreateNext(b), MissingTitles(b) # {}, NEW k, k = First(MissingTitles(b))
    PROVE  \/ Insert(DemoMovies[k], 1) /\ After(b, k) /\ UNCHANGED faults
           \/ \E n \in Nat \ {0} : n <= Instances /\ Insert(DemoMovies[k], n) /\ After(b, k) /\ Fault
           \/ \E n \in Nat : n <= Instances /\ Insert(DemoMovies[k], n) /\ Raised(b)
<1>1. \A n \in 2..Instances : n \in Nat \ {0} /\ n <= Instances
  BY DemoAssumption
<1> QED BY <1>1, InstancesAreMany DEF CreateNext

LEMMA PostCases ==
    ASSUME NEW b, ReviewNext(b), MissingReviews(b) # {}, NEW k, k = First(MissingReviews(b)),
           NEW key, key = Key(b, k), NEW posted, posted = [key EXCEPT ![1] = ActsAs(key[1])],
           NEW added, added = [seed[b] EXCEPT !.i = k + 1, !.keys = @ \cup {key}]
    PROVE  \/ Post(posted, 1) /\ Becomes(b, added) /\ UNCHANGED faults
           \/ \E n \in Nat \ {0} : n <= Instances /\ Post(posted, n) /\ Becomes(b, added) /\ Fault
           \/ \E n \in Nat : n <= Instances /\ Post(posted, n) /\ Swallowed(b, k)
<1>1. \A n \in 2..Instances : n \in Nat \ {0} /\ n <= Instances
  BY DemoAssumption
<1> QED BY <1>1, InstancesAreMany DEF ReviewNext

LEMMA EverythingGrows == ASSUME SeedTypes, [Next]_vars PROVE Grew
<1> USE DEF vars, accounts, stores, bounds
<1>0. /\ Len(users) \in Nat /\ Len(movies) \in Nat
      /\ \A b \in Browsers : seed[b].i \in Nat \ {0}
  BY DEF ScriptType, SeedTypes, AccountTypes
<1>1. ASSUME UNCHANGED users, UNCHANGED stores PROVE Grew
  BY <1>0, <1>1 DEF Grew, AllReviews
<1>2. CASE Handle
  <2>1. PICK c \in Browsers \cup {Stranger} : Auth!Handle(c)
    BY <1>2 DEF Handle
  <2>2. UNCHANGED stores
    BY <1>2 DEF Handle
  <2> QED BY <1>0, <2>1, <2>2, RowsGrow DEF Grew, AllReviews
<1>3. CASE Interfere \/ UNCHANGED vars
  BY <1>1, <1>3 DEF Interfere, Auth!Register
<1>4. ASSUME NEW b \in Browsers, Step(b) \/ Stop(b) \/ \E only \in BOOLEAN : Click(b, only)
      PROVE  Grew
  <2>1. CASE Stop(b) \/ \E only \in BOOLEAN : Click(b, only)
    BY <1>1, <2>1 DEF Stop, Click
  <2>2. CASE \/ GetUsers(b, "users", "register") \/ Registered(b)
             \/ GetUsers(b, "users again", "movies") \/ GetMovies(b, "movies", "create")
             \/ GetMovies(b, "movies again", "movies read") \/ GetReviews(b)
    BY <1>1, <2>2 DEF GetUsers, Registered, GetMovies, GetReviews
  <2>3. CASE RegisterNext(b)
    <3>1. UNCHANGED users /\ UNCHANGED stores
      BY <2>3 DEF RegisterNext, Auth!Register
    <3> QED BY <1>1, <3>1
  <2>4. CASE CreateNext(b)
    <3>1. UNCHANGED <<users, reviews, follows>>
      BY <2>4 DEF CreateNext
    <3>2. UNCHANGED movies \/ \E k \in MissingTitles(b), n \in Nat : Insert(DemoMovies[k], n)
      <4>1. CASE MissingTitles(b) = {}
        BY <2>4, <4>1 DEF CreateNext
      <4>2. CASE MissingTitles(b) # {}
        <5>1. First(MissingTitles(b)) \in MissingTitles(b)
          BY <4>2, TodoIsTyped, FirstIsLeast
        <5> DEFINE t == DemoMovies[First(MissingTitles(b))]
        <5>2. \E n \in Nat : Insert(t, n)
          BY <2>4, <4>2, CreateCases
        <5> QED BY <5>1, <5>2
      <4> QED BY <4>1, <4>2
    <3>3. \A k \in MissingTitles(b) : DemoMovies[k] \in Range(DemoMovies)
      BY TodoIsTyped DEF Range
    <3>4. Len(movies) <= Len(movies') /\ Range(movies) \subseteq Range(movies')
      BY <1>0, <3>2, <3>3, TitlesGrow
    <3> QED BY <1>0, <3>1, <3>4 DEF Grew, AllReviews
  <2>5. CASE ReviewNext(b)
    <3>1. UNCHANGED <<users, movies, follows>>
      BY <2>5 DEF ReviewNext
    <3>2. ASSUME NEW key, NEW n \in Nat, Post(key, n) PROVE AllReviews \subseteq AllReviews'
      BY <3>2, ReviewsGrow
    <3>3. CASE UNCHANGED reviews
      BY <1>0, <3>1, <3>3 DEF Grew, AllReviews
    <3>4. CASE \E key : \E n \in Nat : Post(key, n)
      BY <1>0, <3>1, <3>2, <3>4 DEF Grew
    <3>5. CASE MissingReviews(b) = {}
      BY <2>5, <3>3, <3>5 DEF ReviewNext
    <3>6. CASE MissingReviews(b) # {}
      <4>1. PICK key : key = Key(b, First(MissingReviews(b)))
        OBVIOUS
      <4>2. PICK posted : posted = [key EXCEPT ![1] = ActsAs(key[1])]
        OBVIOUS
      <4>3. PICK k : k = First(MissingReviews(b))
        OBVIOUS
      <4>4. PICK added : added = [seed[b] EXCEPT !.i = k + 1, !.keys = @ \cup {key}]
        OBVIOUS
      <4>5. \/ Post(posted, 1) /\ Becomes(b, added) /\ UNCHANGED faults
            \/ \E n \in Nat \ {0} : n <= Instances /\ Post(posted, n) /\ Becomes(b, added) /\ Fault
            \/ \E n \in Nat : n <= Instances /\ Post(posted, n) /\ Swallowed(b, k)
        BY <2>5, <3>6, <4>1, <4>2, <4>3, <4>4, PostCases
      <4>6. \E n \in Nat : Post(posted, n)
        BY <4>5
      <4> QED BY <3>4, <4>6
    <3> QED BY <3>5, <3>6
  <2>6. CASE FollowNext(b)
    BY <1>0, <2>6 DEF FollowNext, Grew, AllReviews
  <2> QED BY <1>4, <2>1, <2>2, <2>3, <2>4, <2>5, <2>6 DEF Step
<1> QED BY <1>2, <1>3, <1>4 DEF Next

----------------------------------------------------------------------------
(* Registration: the part of the invariant about accounts.                 *)

LEMMA RegisterKeepsAccounts ==
    ASSUME AccountsInv, NEW c \in Browsers \cup {Stranger}, NEW n, NEW e, Auth!Register(c, n, e),
           \/ c \in Browsers /\ n \in Demo /\ e = n
           \/ c = Stranger /\ reg[c].step = "idle" /\ [name |-> n, email |-> e] \in StrangeRows
    PROVE  AccountsInv'
<1>1. /\ users' = users
      /\ DOMAIN reg' = DOMAIN reg /\ DOMAIN reg = Browsers \cup {Stranger}
      /\ reg'[c] = [step |-> "email", name |-> n, email |-> e]
      /\ \A d \in Browsers \cup {Stranger} : d # c => reg'[d] = reg[d]
  BY DEF Auth!Register, AccountsInv, AccountTypes
<1>2. Stranger \notin Browsers
  BY PeopleAssumption
<1>3. AccountTypes'
  BY <1>1 DEF AccountsInv, AccountTypes, Auth!Steps
<1>4. RequestsAreKnown'
  <2>1. Auth!Row(c)' = [name |-> n, email |-> e]
    BY <1>1 DEF Auth!Row
  <2>2. \A d \in Browsers \cup {Stranger} : d # c => Auth!Row(d)' = Auth!Row(d)
    BY <1>1 DEF Auth!Row
  <2> QED BY <1>1, <1>2, <2>1, <2>2 DEF AccountsInv, RequestsAreKnown, Own
<1>5. RowsAreKnown'
  <2>1. c # Stranger => reg'[Stranger] = reg[Stranger] /\ Auth!Row(Stranger)' = Auth!Row(Stranger)
    BY <1>1 DEF Auth!Row
  <2>2. c = Stranger => reg[Stranger].step # "ok"
    BY <1>2
  <2> QED BY <1>1, <2>1, <2>2 DEF AccountsInv, RowsAreKnown
<1>6. AccountsAreUnique'
  BY <1>1 DEF AccountsInv, AccountsAreUnique, Auth!AccountsAreUnique
<1>7. AnswersAreTrue'
  BY <1>1 DEF AccountsInv, AnswersAreTrue, Auth!AnswersAreTrue, Auth!HasEmail, Auth!HasName, Auth!Row
<1> QED BY <1>3, <1>4, <1>5, <1>6, <1>7 DEF AccountsInv

LEMMA HandleKeepsAccounts ==
    ASSUME AccountsInv, NEW c \in Browsers \cup {Stranger}, Auth!Handle(c)
    PROVE  /\ AccountsInv'
           /\ \A d \in Browsers \cup {Stranger} :
                 Auth!Row(d)' = Auth!Row(d) /\ (reg[d].step # "idle" => reg'[d].step # "idle")
<1>0. Stranger \notin Browsers
  BY PeopleAssumption
<1>1. PICK step \in {"name", "insert", "ok", "conflict"} :
         /\ reg[c].step \in {"email", "name", "insert"} /\ reg' = [reg EXCEPT ![c].step = step]
         /\ \/ /\ step # "ok" /\ users' = users
               /\ step = "conflict" => Auth!HasEmail(reg[c].email) \/ Auth!HasName(reg[c].name)
            \/ /\ step = "ok" /\ users' = Append(users, Auth!Row(c))
               /\ ~Auth!HasEmail(reg[c].email) /\ ~Auth!HasName(reg[c].name)
  BY DEF Auth!Handle, Auth!LookUpEmail, Auth!LookUpName, Auth!CreateUser, Auth!Go
<1>2. /\ DOMAIN reg' = DOMAIN reg /\ DOMAIN reg = Browsers \cup {Stranger}
      /\ DOMAIN reg'[c] = DOMAIN reg[c] /\ reg'[c].step = step
      /\ reg'[c].name = reg[c].name /\ reg'[c].email = reg[c].email
      /\ \A d \in Browsers \cup {Stranger} : d # c => reg'[d] = reg[d]
  BY <1>1 DEF AccountsInv, AccountTypes
<1>3. \A d \in Browsers \cup {Stranger} : Auth!Row(d)' = Auth!Row(d)
  BY <1>2 DEF Auth!Row
<1>4. \A d \in Browsers \cup {Stranger} : reg[d].step # "idle" => reg'[d].step # "idle"
  BY <1>1, <1>2
<1>5. RequestsAreKnown'
  <2>1. reg[c].step # "idle"
    BY <1>1
  <2> QED BY <1>2, <1>3, <2>1 DEF AccountsInv, RequestsAreKnown
<1>6. Auth!Row(c) \in [name : People, email : People]
  <2>1. reg[c].step # "idle"
    BY <1>1
  <2>2. CASE c \in Browsers
    BY <2>1, <2>2 DEF AccountsInv, RequestsAreKnown, Own, People
  <2>3. CASE c = Stranger
    <3>1. PICK n \in Demo : Auth!Row(c) \in {[name |-> n, email |-> Stranger], [name |-> Stranger, email |-> n]}
      BY <2>1, <2>3, PeopleAssumption DEF AccountsInv, RequestsAreKnown
    <3> QED BY <3>1 DEF People
  <2> QED BY <2>2, <2>3
<1>7. AccountTypes'
  <2> DEFINE R == [name : People, email : People]
  <2>1. users \in Seq(R) /\ Auth!Row(c) \in R
    BY <1>6 DEF AccountsInv, AccountTypes
  <2> HIDE DEF R
  <2>2. users' \in Seq(R)
    BY <1>1, <2>1
  <2>3. \A d \in Browsers \cup {Stranger} :
           DOMAIN reg'[d] = {"step", "name", "email"} /\ reg'[d].step \in Auth!Steps
    BY <1>2 DEF AccountsInv, AccountTypes, Auth!Steps
  <2> QED BY <1>2, <2>2, <2>3 DEF AccountTypes, R
<1>8. /\ Len(users) \in Nat /\ users \in Seq([name : People, email : People])
      /\ Auth!Row(c).name = reg[c].name /\ Auth!Row(c).email = reg[c].email
  BY DEF AccountsInv, AccountTypes, Auth!Row
<1>9. CASE users' = users
  <2>1. RowsAreKnown'
    <3>1. reg[Stranger].step = "ok" => reg'[Stranger].step = "ok"
      BY <1>1, <1>2
    <3> QED BY <1>3, <1>9, <3>1 DEF AccountsInv, RowsAreKnown
  <2>2. AccountsAreUnique'
    BY <1>9 DEF AccountsInv, AccountsAreUnique, Auth!AccountsAreUnique
  <2>3. step # "ok"
    BY <1>1, <1>8, <1>9
  <2>4. AnswersAreTrue'
    BY <1>1, <1>2, <1>3, <1>9, <2>3
       DEF AccountsInv, AnswersAreTrue, Auth!AnswersAreTrue, Auth!HasEmail, Auth!HasName
  <2> QED BY <1>3, <1>4, <1>5, <1>7, <2>1, <2>2, <2>4 DEF AccountsInv
<1>10. CASE step = "ok" /\ users' = Append(users, Auth!Row(c))
  <2>1. /\ Len(users') = Len(users) + 1 /\ users'[Len(users) + 1] = Auth!Row(c)
        /\ \A k \in 1..Len(users) : users'[k] = users[k]
    BY <1>8, <1>10
  <2>2. \A k \in 1..Len(users') : k \in 1..Len(users) \/ k = Len(users) + 1
    BY <1>8, <2>1
  <2>3. \A k \in 1..Len(users) : users[k].name # reg[c].name /\ users[k].email # reg[c].email
    BY <1>1, <1>8, <1>10 DEF Auth!HasEmail, Auth!HasName
  <2>4. RowsAreKnown'
    <3>1. reg[Stranger].step = "ok" => reg'[Stranger].step = "ok"
      BY <1>1, <1>2
    <3>2. Len(users') > 0 /\ users'[1] = Own(Viewer)
      BY <1>8, <2>1 DEF AccountsInv, RowsAreKnown
    <3>3. \A k \in 1..Len(users) :
             \/ \E n \in Demo \cup {Viewer} : users'[k] = Own(n)
             \/ reg'[Stranger].step = "ok" /\ users'[k] = Auth!Row(Stranger)'
      BY <1>3, <2>1, <3>1 DEF AccountsInv, RowsAreKnown
    <3>4. \/ \E n \in Demo \cup {Viewer} : Auth!Row(c) = Own(n)
          \/ reg'[Stranger].step = "ok" /\ Auth!Row(c) = Auth!Row(Stranger)'
      BY <1>0, <1>1, <1>2, <1>3, <1>10 DEF AccountsInv, RequestsAreKnown
    <3> QED BY <2>1, <2>2, <3>2, <3>3, <3>4 DEF RowsAreKnown
  <2>5. AccountsAreUnique'
    <3> SUFFICES ASSUME NEW j \in 1..Len(users'), NEW k \in 1..Len(users'),
                        users'[j].name = users'[k].name \/ users'[j].email = users'[k].email
                 PROVE  j = k
      BY DEF AccountsAreUnique, Auth!AccountsAreUnique
    <3>1. CASE j \in 1..Len(users) /\ k \in 1..Len(users)
      BY <2>1, <3>1 DEF AccountsInv, AccountsAreUnique, Auth!AccountsAreUnique
    <3>2. CASE j = Len(users) + 1 /\ k = Len(users) + 1
      BY <3>2
    <3>3. CASE j \in 1..Len(users) /\ k = Len(users) + 1
      BY <1>8, <2>1, <2>3, <3>3
    <3>4. CASE j = Len(users) + 1 /\ k \in 1..Len(users)
      BY <1>8, <2>1, <2>3, <3>4
    <3> QED BY <2>2, <3>1, <3>2, <3>3, <3>4
  <2>6. AnswersAreTrue'
    <3> SUFFICES ASSUME NEW d \in Browsers \cup {Stranger}
                 PROVE  /\ reg'[d].step = "conflict" => Auth!HasEmail(reg[d].email)' \/ Auth!HasName(reg[d].name)'
                        /\ reg'[d].step = "ok" => \E k \in 1..Len(users') : users'[k] = Auth!Row(d)
      BY <1>2, <1>3 DEF AnswersAreTrue, Auth!AnswersAreTrue, Auth!HasEmail, Auth!HasName
    <3>1. \A k \in 1..Len(users) : k \in 1..Len(users') /\ users'[k] = users[k]
      BY <1>8, <2>1
    <3>2. Len(users) + 1 \in 1..Len(users')
      BY <1>8, <2>1
    <3>3. CASE d = c
      BY <1>2, <1>10, <2>1, <3>2, <3>3
    <3>4. CASE d # c
      BY <1>2, <3>1, <3>4
         DEF AccountsInv, AnswersAreTrue, Auth!AnswersAreTrue, Auth!HasEmail, Auth!HasName
    <3> QED BY <3>3, <3>4
  <2> QED BY <1>3, <1>4, <1>5, <1>7, <2>4, <2>5, <2>6 DEF AccountsInv
<1> QED BY <1>1, <1>9, <1>10

----------------------------------------------------------------------------
(* What a script has read and done does not change under it.               *)

LEMMA ReadsStay ==
    ASSUME SeedTypes, Grew, NEW b \in Browsers,
           seed'[b].users = seed[b].users, seed'[b].movies = seed[b].movies
    PROVE  /\ Known(b)' = Known(b) /\ Listed(b)' = Listed(b)
           /\ MaxReviews(b)' = MaxReviews(b)
           /\ \A k : Key(b, k)' = Key(b, k)
           /\ \A n : Taken(n, Len(users)) => Taken(n, Len(users))'
           /\ \A n : Taken(n, seed[b].users) => Taken(n, seed[b].users)'
<1>1. /\ seed[b].users \in 0..Len(users) /\ Len(users) \in Nat /\ Len(users') \in Int
      /\ Len(users) <= Len(users') /\ \A k \in 1..Len(users) : users'[k] = users[k]
  BY DEF SeedTypes, ScriptType, AccountTypes, Grew
<1>2. \A k \in 1..seed[b].users : k \in 1..Len(users) /\ users'[k] = users[k]
  BY <1>1
<1>3. Known(b)' = Known(b) /\ Listed(b)' = Listed(b)
  BY <1>2 DEF Known, Listed
<1>4. MaxReviews(b)' = MaxReviews(b)
  BY DEF MaxReviews
<1>5. Authors(b)' = Authors(b)
  <2>1. [k \in 1..seed[b].users |-> users[k].name]' = [k \in 1..seed[b].users |-> users[k].name]
    BY <1>2
  <2> QED BY <2>1 DEF Authors
<1>6. \A k : Key(b, k)' = Key(b, k)
  BY <1>5 DEF Key
<1>7. \A n : Taken(n, Len(users)) => Taken(n, Len(users))'
  BY <1>1 DEF Taken
<1>8. \A n : Taken(n, seed[b].users) => Taken(n, seed[b].users)'
  BY <1>2 DEF Taken
<1> QED BY <1>3, <1>4, <1>6, <1>7, <1>8

LEMMA RegisterProgressStays ==
    ASSUME SeedTypes, Grew, NEW b \in Browsers, RegisterProgress(b), seed'[b] = seed[b],
           At(b, "registering") => reg'[b].step # "idle" /\ Auth!Row(b)' = Auth!Row(b)
    PROVE  RegisterProgress(b)'
<1>1. /\ \A n : Taken(n, Len(users)) => Taken(n, Len(users))'
      /\ \A n : Taken(n, seed[b].users) => Taken(n, seed[b].users)'
  BY ReadsStay
<1>2. \A p : At(b, p)' <=> At(b, p)
  BY DEF At
<1>3. (At(b, "register") /\ ~seed[b].hurt =>
          \A k \in DOMAIN DemoUsers : k < seed[b].i => Taken(DemoUsers[k], Len(users)))'
  BY <1>1, <1>2 DEF RegisterProgress
<1>4. (At(b, "registering") =>
          /\ seed[b].i - 1 \in DOMAIN DemoUsers
          /\ reg[b].step # "idle" /\ Auth!Row(b) = Own(DemoUsers[seed[b].i - 1])
          /\ ~seed[b].hurt =>
                \A k \in DOMAIN DemoUsers : k < seed[b].i - 1 => Taken(DemoUsers[k], Len(users)))'
  BY <1>1, <1>2 DEF RegisterProgress, Own
<1>5. (At(b, "users again") /\ ~seed[b].hurt => \A n \in Demo : Taken(n, Len(users)))'
  BY <1>1, <1>2 DEF RegisterProgress
<1>6. (seed[b].at \in HasUsers /\ ~seed[b].only =>
          seed[b].users > 0 /\ (~seed[b].hurt => \A n \in Demo : Taken(n, seed[b].users)))'
  BY <1>1 DEF RegisterProgress, HasUsers
<1> QED BY <1>3, <1>4, <1>5, <1>6 DEF RegisterProgress

LEMMA CreateProgressStays ==
    ASSUME Grew, NEW b \in Browsers, CreateProgress(b), seed'[b] = seed[b]
    PROVE  CreateProgress(b)'
BY DEF Grew, CreateProgress, At, HasCreated

LEMMA ReviewProgressStays ==
    ASSUME SeedTypes, Grew, NEW b \in Browsers, ReviewProgress(b), seed'[b] = seed[b]
    PROVE  ReviewProgress(b)'
<1>1. /\ Known(b)' = Known(b) /\ MaxReviews(b)' = MaxReviews(b) /\ AllReviews \subseteq AllReviews'
      /\ \A k : Key(b, k)' = Key(b, k)
  BY ReadsStay DEF Grew
<1>2. \A k : Reviewed(b, k) => Reviewed(b, k)'
  BY <1>1 DEF Reviewed
<1>3. \A p : At(b, p)' <=> At(b, p)
  BY DEF At
<1>4. (At(b, "review") =>
          \A key \in seed[b].keys : key[1] \in Demo \cup {Viewer} => key \in AllReviews)'
  BY <1>1, <1>3 DEF ReviewProgress
<1>5. (At(b, "review") /\ ~seed[b].hurt => \A k \in 1..seed[b].i - 1 : Reviewed(b, k))'
  BY <1>2, <1>3 DEF ReviewProgress
<1>6. (seed[b].at \in {"follow", "done"} /\ ~seed[b].only /\ ~seed[b].hurt =>
          \A k \in 1..MaxReviews(b) : Reviewed(b, k))'
  BY <1>1, <1>2 DEF ReviewProgress
<1>7. (At(b, "movies read") => seed[b].i = 1)'
  BY <1>3 DEF ReviewProgress
<1> QED BY <1>4, <1>5, <1>6, <1>7 DEF ReviewProgress

LEMMA FollowProgressStays ==
    ASSUME SeedTypes, Grew, NEW b \in Browsers, FollowProgress(b), seed'[b] = seed[b]
    PROVE  FollowProgress(b)'
<1>1. Known(b)' = Known(b) /\ follows \subseteq follows'
  BY ReadsStay DEF Grew
<1>2. \A k : Followed(b, k) => Followed(b, k)'
  BY <1>1 DEF Followed, Pairs
<1> QED BY <1>2 DEF FollowProgress, At, Pairs

LEMMA ProgressStays ==
    ASSUME SeedTypes, Grew, NEW b \in Browsers, Progress(b), seed'[b] = seed[b],
           At(b, "registering") => reg'[b].step # "idle" /\ Auth!Row(b)' = Auth!Row(b)
    PROVE  Progress(b)'
BY RegisterProgressStays, CreateProgressStays, ReviewProgressStays, FollowProgressStays DEF Progress

----------------------------------------------------------------------------
(* One lemma per step of a script.                                         *)

\* A step of one script: what there is to show.
LEMMA OneScriptMoves ==
    ASSUME SeedInv, Grew, NEW b \in Browsers, NEW new, Becomes(b, new),
           AccountsInv', \A a \in Browsers : a # b => reg'[a] = reg[a],
           movies' \in Seq(Range(DemoMovies)), faults' \in Nat, faults <= faults',
           ScriptType(b)', Progress(b)'
    PROVE  SeedInv'
<1>1. /\ DOMAIN seed' = DOMAIN seed /\ DOMAIN seed = Browsers
      /\ \A a \in Browsers : a # b => seed'[a] = seed[a]
  BY DEF SeedInv, SeedTypes, Becomes
<1>2. Len(users') \in Nat
  BY DEF AccountsInv, AccountTypes
<1>3. ASSUME NEW a \in Browsers, a # b PROVE ScriptType(a)'
  <2>1. ScriptType(a) /\ seed'[a] = seed[a] /\ Len(users) \in Nat /\ Len(movies) \in Nat
    BY <1>1, <1>3 DEF SeedInv, SeedTypes, AccountTypes
  <2>2. PICK u \in Int, m \in Int : Len(users') = u /\ Len(movies') = m
    BY <1>2
  <2>3. Len(users) <= u /\ Len(movies) <= m
    BY <2>2 DEF Grew
  <2>4. seed[a].hurt => faults' > 0
    BY <2>1 DEF ScriptType, SeedInv, SeedTypes
  <2> QED BY <2>1, <2>2, <2>3, <2>4 DEF ScriptType
<1>4. SeedTypes'
  BY <1>1, <1>3 DEF SeedTypes, AccountsInv
<1>5. ASSUME NEW a \in Browsers, a # b PROVE Progress(a)'
  <2>1. Auth!Row(a)' = Auth!Row(a) /\ (At(a, "registering") => reg[a].step # "idle")
    BY <1>5 DEF Auth!Row, SeedInv, Progress, RegisterProgress
  <2> QED BY <1>1, <1>5, <2>1, ProgressStays DEF SeedInv
<1> QED BY <1>4, <1>3, <1>5 DEF SeedInv

LEMMA ScriptStep ==
    ASSUME SeedInv, Grew, NEW b \in Browsers, NEW new, Becomes(b, new), UNCHANGED accounts,
           movies' \in Seq(Range(DemoMovies)), faults' \in Nat, faults <= faults',
           ScriptType(b)', Progress(b)'
    PROVE  SeedInv'
<1>1. AccountsInv' /\ reg' = reg
  BY DEF accounts, SeedInv, AccountsInv, AccountTypes, RequestsAreKnown, RowsAreKnown, Auth!Row,
         AccountsAreUnique, AnswersAreTrue, Auth!AccountsAreUnique, Auth!AnswersAreTrue,
         Auth!HasEmail, Auth!HasName
<1> QED BY <1>1, OneScriptMoves

\* A script that begins, or is stopped by an exception or a click, owes nothing.
LEMMA ScriptBegins ==
    ASSUME SeedTypes, Grew, NEW b \in Browsers, NEW only \in BOOLEAN, NEW at \in {"idle", "users", "movies"},
           at = "movies" => only, Becomes(b, Script(at, only)),
           Len(users') \in Nat, Len(movies') \in Nat
    PROVE  ScriptType(b)' /\ Progress(b)'
<1>1. seed'[b] = Script(at, only)
  BY DEF SeedTypes, Becomes
<1>2. /\ DOMAIN seed'[b] = {"at", "i", "users", "movies", "keys", "only", "hurt"}
      /\ seed'[b].at = at /\ seed'[b].i = 1 /\ seed'[b].users = 0 /\ seed'[b].movies = 0
      /\ ~seed'[b].hurt /\ seed'[b].hurt \in BOOLEAN
  BY <1>1 DEF Script
<1>3. seed'[b].only \in BOOLEAN /\ (at = "movies" => seed'[b].only)
  <2>1. seed'[b].only = only
    BY <1>1 DEF Script
  <2> QED BY <2>1, Zenon
<1>4. ScriptType(b)'
  <2>1. at \in Places /\ at \notin HasCreated
    BY DEF Places, HasCreated
  <2>2. 0 \in 0..Len(users') /\ 0 \in 0..Len(movies')
    OBVIOUS
  <2>3. 1 \in Nat \ {0}
    OBVIOUS
  <2> QED BY <1>2, <1>3, <2>1, <2>2, <2>3 DEF ScriptType
<1>5. RegisterProgress(b)'
  BY <1>2, <1>3 DEF RegisterProgress, At, HasUsers
<1>6. CreateProgress(b)'
  BY <1>2, <1>3 DEF CreateProgress, At, HasCreated
<1>7. ReviewProgress(b)'
  BY <1>2, <1>3 DEF ReviewProgress, At
<1>8. FollowProgress(b)'
  BY <1>2, <1>3 DEF FollowProgress, At
<1> QED BY <1>4, <1>5, <1>6, <1>7, <1>8 DEF Progress

LEMMA BoundsOfTables ==
    ASSUME SeedTypes
    PROVE  /\ Len(users) \in Nat /\ Len(movies) \in Nat /\ faults \in Nat /\ faults + 1 \in Nat
           /\ faults <= faults /\ faults <= faults + 1
           /\ DOMAIN DemoUsers = 1..Len(DemoUsers) /\ Len(DemoUsers) \in Nat
           /\ DOMAIN DemoMovies = 1..Len(DemoMovies) /\ Len(DemoMovies) \in Nat
BY DemoAssumption DEF SeedTypes, AccountTypes

LEMMA ClickKeeps ==
    ASSUME SeedInv, Grew, NEW b \in Browsers, Stop(b) \/ \E only \in BOOLEAN : Click(b, only)
    PROVE  SeedInv'
<1>1. UNCHANGED <<accounts, stores, faults>>
  BY DEF Stop, Click, bounds
<1>2. PICK at \in {"idle", "users", "movies"}, only \in BOOLEAN :
         (at = "movies" => only) /\ Becomes(b, Script(at, only))
  BY DEF Stop, Click, Idle
<1>3. SeedTypes
  BY DEF SeedInv
<1>4. Len(users') \in Nat /\ Len(movies') \in Nat /\ movies' = movies /\ faults' = faults
  <2>1. users' = users /\ movies' = movies /\ faults' = faults
    BY <1>1 DEF accounts, stores
  <2> QED BY <1>3, <2>1, BoundsOfTables
<1>5. ScriptType(b)' /\ Progress(b)'
  BY <1>2, <1>3, <1>4, ScriptBegins
<1> QED BY <1>1, <1>2, <1>3, <1>4, <1>5, BoundsOfTables, ScriptStep DEF SeedTypes

LEMMA ScriptFacts ==
    ASSUME SeedInv, NEW b \in Browsers
    PROVE  /\ SeedTypes /\ AccountsInv /\ ScriptType(b) /\ Progress(b) /\ DOMAIN seed = Browsers
           /\ movies \in Seq(Range(DemoMovies)) /\ Len(users) \in Nat /\ Len(movies) \in Nat
           /\ faults \in Nat /\ faults <= faults /\ Len(users) > 0
<1>1. /\ SeedTypes /\ AccountsInv /\ ScriptType(b) /\ Progress(b) /\ DOMAIN seed = Browsers
      /\ movies \in Seq(Range(DemoMovies))
  BY DEF SeedInv, SeedTypes
<1>2. Len(users) > 0
  BY <1>1 DEF AccountsInv, RowsAreKnown
<1> QED BY <1>1, <1>2, BoundsOfTables

LEMMA IndicesArePositive ==
    /\ \A k \in DOMAIN DemoUsers : k \in Nat /\ ~(k < 1)
    /\ \A k \in DOMAIN DemoMovies : k \in Nat /\ ~(k < 1)
    /\ \A k \in DOMAIN Pairs : k \in Nat /\ ~(k < 1)
    /\ 1 \in Nat \ {0} /\ 1 \in Nat
<1>1. \A S, s : s \in Seq(S) => \A k \in DOMAIN s : k \in Nat /\ ~(k < 1)
  OBVIOUS
<1> QED BY <1>1, DemoAssumption, PairsAreTyped

LEMMA TypeMoves ==
    ASSUME SeedInv, Grew, NEW b \in Browsers, DOMAIN seed'[b] = DOMAIN seed[b],
           seed'[b].at \in Places, seed'[b].i \in Nat \ {0},
           seed'[b].users = seed[b].users \/ seed'[b].users = Len(users),
           seed'[b].movies = seed[b].movies \/ seed'[b].movies = Len(movies),
           seed'[b].only = seed[b].only,
           seed'[b].hurt = seed[b].hurt \/ (seed'[b].hurt = TRUE /\ faults' > 0),
           users' = users, Len(movies') \in Nat, faults' \in Nat, faults <= faults',
           seed'[b].at \in HasCreated \ {"done"} => ~seed[b].only
    PROVE  ScriptType(b)'
<1>1. /\ ScriptType(b) /\ Len(users) \in Nat /\ Len(movies) \in Nat /\ faults \in Nat
      /\ Len(movies) <= Len(movies')
  BY ScriptFacts DEF Grew
<1>2. seed'[b].users \in 0..Len(users')
  BY <1>1 DEF ScriptType
<1>3. seed'[b].movies \in 0..Len(movies')
  <2>1. PICK m \in Nat : Len(movies') = m
    OBVIOUS
  <2>2. PICK n \in 0..Len(movies) : seed'[b].movies = n
    BY <1>1 DEF ScriptType
  <2>3. n \in 0..m
    BY <1>1, <2>1, <2>2
  <2> QED BY <2>1, <2>2, <2>3
<1>4. seed'[b].only \in BOOLEAN /\ (seed'[b].at \in HasCreated \ {"done"} => ~seed'[b].only)
  BY <1>1 DEF ScriptType
<1>5. seed'[b].hurt \in BOOLEAN /\ (seed'[b].hurt => faults' > 0)
  <2>1. PICK f \in Nat : faults' = f
    OBVIOUS
  <2>2. faults > 0 => f > 0
    BY <1>1, <2>1
  <2>3. CASE seed'[b].hurt = seed[b].hurt
    BY <1>1, <2>1, <2>2, <2>3 DEF ScriptType
  <2>4. CASE seed'[b].hurt = TRUE /\ faults' > 0
    BY <2>4
  <2> QED BY <2>3, <2>4
<1>6. DOMAIN seed[b] = {"at", "i", "users", "movies", "keys", "only", "hurt"}
  BY <1>1 DEF ScriptType
<1> QED BY <1>2, <1>3, <1>4, <1>5, <1>6 DEF ScriptType

LEMMA RaiseKeeps ==
    ASSUME SeedInv, Grew, NEW b \in Browsers, Raised(b), UNCHANGED accounts,
           movies' \in Seq(Range(DemoMovies))
    PROVE  SeedInv'
<1>1. Becomes(b, Script("idle", FALSE)) /\ faults' = faults + 1
  BY DEF Raised, Fault, Idle
<1>2. SeedTypes
  BY DEF SeedInv
<1>3. users' = users /\ Len(movies') \in Nat
  BY DEF accounts
<1>4. Len(users') \in Nat /\ faults' \in Nat /\ faults <= faults'
  BY <1>1, <1>2, <1>3, BoundsOfTables
<1>5. ScriptType(b)' /\ Progress(b)'
  BY <1>1, <1>2, <1>3, <1>4, ScriptBegins
<1> QED BY <1>1, <1>4, <1>5, ScriptStep

LEMMA GetUsersKeeps ==
    ASSUME SeedInv, Grew, NEW b \in Browsers,
           GetUsers(b, "users", "register") \/ GetUsers(b, "users again", "movies")
    PROVE  SeedInv'
<1>1. /\ UNCHANGED accounts /\ movies' = movies /\ users' = users
      /\ SeedTypes /\ ScriptType(b) /\ Progress(b) /\ DOMAIN seed = Browsers
      /\ movies \in Seq(Range(DemoMovies)) /\ Len(users) \in Nat /\ Len(movies) \in Nat
      /\ faults \in Nat /\ faults <= faults /\ Len(users) > 0
  BY ScriptFacts DEF GetUsers, accounts, stores
<1>2. CASE Raised(b)
  BY <1>1, <1>2, RaiseKeeps
<1>3. ASSUME NEW before, NEW after \in {"register", "movies"},
             At(b, before), UNCHANGED faults,
             Becomes(b, [seed[b] EXCEPT !.at = after, !.i = 1, !.users = Len(Auth!AllUsers)]),
             after = "movies" => before = "users again", after = "register" => before = "users"
      PROVE  SeedInv'
  <2>0. faults' = faults
    BY <1>3
  <2>1. /\ DOMAIN seed'[b] = DOMAIN seed[b]
        /\ seed'[b].at = after /\ seed'[b].i = 1 /\ seed'[b].users = Len(users)
        /\ seed'[b].movies = seed[b].movies
        /\ seed'[b].only = seed[b].only /\ seed'[b].hurt = seed[b].hurt
    BY <1>1, <1>3 DEF Becomes, ScriptType, Auth!AllUsers
  <2>2. ScriptType(b)'
    <3>1. after \in Places /\ after \notin HasCreated
      BY <1>3 DEF Places, HasCreated
    <3>2. 1 \in Nat \ {0}
      BY IndicesArePositive
    <3>3. /\ seed'[b].at \in Places /\ seed'[b].at \notin HasCreated
          /\ seed'[b].i \in Nat \ {0} /\ Len(movies') \in Nat
          /\ faults' \in Nat /\ faults <= faults'
      BY <1>1, <2>0, <2>1, <3>1, <3>2
    <3> QED BY <1>1, <2>1, <3>3, TypeMoves
  <2>3. RegisterProgress(b)'
    <3>1. \A k \in DOMAIN DemoUsers : ~(k < 1)
      BY IndicesArePositive
    <3>2. CASE after = "register"
      BY <2>1, <3>1, <3>2 DEF RegisterProgress, At, HasUsers
    <3>3. CASE after = "movies"
      <4>2. ~seed[b].hurt => \A n \in Demo : Taken(n, Len(users))
        BY <1>1, <1>3, <3>3 DEF Progress, RegisterProgress
      <4>3. ~seed'[b].hurt => \A n \in Demo : Taken(n, Len(users))'
        BY <1>1, <2>1, <4>2 DEF Taken
      <4> QED BY <1>1, <2>1, <3>3, <4>3 DEF RegisterProgress, At, HasUsers, Taken
    <3> QED BY <1>3, <3>2, <3>3
  <2>4. CreateProgress(b)' /\ ReviewProgress(b)' /\ FollowProgress(b)'
    BY <1>3, <2>1 DEF CreateProgress, ReviewProgress, FollowProgress, At, HasCreated
  <2> QED BY <1>1, <1>3, <2>0, <2>2, <2>3, <2>4, ScriptStep DEF Progress
<1> QED BY <1>2, <1>3 DEF GetUsers

\* ensure_demo_users: a call that goes wrong leaves a mark, and what was skipped was listed.
LEMMA RegisterNextKeeps ==
    ASSUME SeedInv, Grew, NEW b \in Browsers, RegisterNext(b) PROVE SeedInv'
<1>0. /\ SeedTypes /\ AccountsInv /\ ScriptType(b) /\ Progress(b) /\ DOMAIN seed = Browsers
      /\ movies \in Seq(Range(DemoMovies)) /\ Len(users) \in Nat /\ Len(movies) \in Nat
      /\ faults \in Nat /\ faults <= faults
  BY ScriptFacts
<1>1. /\ At(b, "register") /\ movies' = movies /\ users' = users
      /\ seed[b].i \in Nat \ {0}
  BY <1>0 DEF RegisterNext, stores, accounts, Auth!Register, ScriptType
<1>2. \A k \in DOMAIN DemoUsers : DemoUsers[k] \in Listed(b) => Taken(DemoUsers[k], Len(users))
  BY <1>0 DEF Listed, Taken, ScriptType
<1>3. \A k \in DOMAIN DemoUsers :
         k \notin MissingUsers(b) /\ seed[b].i <= k => Taken(DemoUsers[k], Len(users))
  BY <1>1, <1>2, BoundsOfTables, <1>0 DEF MissingUsers, Todo
<1>4. ~seed[b].hurt =>
         \A k \in DOMAIN DemoUsers : k < seed[b].i => Taken(DemoUsers[k], Len(users))
  BY <1>0, <1>1 DEF Progress, RegisterProgress
<1>5. CASE MissingUsers(b) = {}
  <2>1. UNCHANGED accounts /\ faults' = faults
    BY <1>5 DEF RegisterNext
  <2>2. Becomes(b, [seed[b] EXCEPT !.at = "users again", !.i = 1])
    BY <1>5 DEF RegisterNext, Goto
  <2>3. /\ DOMAIN seed'[b] = DOMAIN seed[b]
        /\ seed'[b].at = "users again" /\ seed'[b].i = 1 /\ seed'[b].users = seed[b].users
        /\ seed'[b].movies = seed[b].movies
        /\ seed'[b].only = seed[b].only /\ seed'[b].hurt = seed[b].hurt
    BY <1>0, <2>2 DEF Becomes, ScriptType
  <2>4. ScriptType(b)'
    <3>1. seed'[b].at \in Places /\ seed'[b].at \notin HasCreated
      BY <2>3 DEF Places, HasCreated
    <3>2. /\ seed'[b].i \in Nat \ {0} /\ Len(movies') \in Nat /\ faults' \in Nat /\ faults <= faults'
      BY <1>0, <1>1, <2>1, <2>3, IndicesArePositive
    <3> QED BY <1>1, <2>3, <3>1, <3>2, TypeMoves
  <2>5. ~seed[b].hurt => \A n \in Demo : Taken(n, Len(users))
    <3>1. ASSUME ~seed[b].hurt, NEW k \in DOMAIN DemoUsers PROVE Taken(DemoUsers[k], Len(users))
      <4>1. k \in Nat
        BY IndicesArePositive
      <4>2. k < seed[b].i \/ seed[b].i <= k
        BY <1>1, <4>1
      <4> QED BY <1>3, <1>4, <1>5, <3>1, <4>2
    <3> QED BY <3>1, DemoIsFinite
  <2>6. RegisterProgress(b)'
    BY <1>1, <2>3, <2>5 DEF RegisterProgress, At, HasUsers, Taken
  <2>7. CreateProgress(b)' /\ ReviewProgress(b)' /\ FollowProgress(b)'
    BY <2>3 DEF CreateProgress, ReviewProgress, FollowProgress, At, HasCreated
  <2> QED BY <1>0, <1>1, <2>1, <2>2, <2>4, <2>6, <2>7, ScriptStep DEF Progress
<1>6. CASE MissingUsers(b) # {}
  <2> DEFINE k == First(MissingUsers(b))
  <2>1. /\ k \in MissingUsers(b) /\ \A j \in MissingUsers(b) : k <= j
        /\ k \in DOMAIN DemoUsers /\ k \in Nat
    BY <1>0, <1>6, TodoIsTyped, FirstIsLeast
  <2>2. \/ /\ Auth!Register(b, DemoUsers[k], DemoUsers[k]) /\ UNCHANGED faults
           /\ Becomes(b, [seed[b] EXCEPT !.at = "registering", !.i = k + 1])
        \/ Swallowed(b, k) /\ UNCHANGED accounts
    BY <1>6 DEF RegisterNext
  <2> HIDE DEF k
  <2>3. k + 1 \in Nat \ {0} /\ \A m : m = k + 1 => m - 1 = k
    BY <2>1
  <2>4. ~seed[b].hurt => \A j \in DOMAIN DemoUsers : j < k => Taken(DemoUsers[j], Len(users))
    <3>1. ASSUME ~seed[b].hurt, NEW j \in DOMAIN DemoUsers, j < k PROVE Taken(DemoUsers[j], Len(users))
      <4>1. j \in Nat /\ j \notin MissingUsers(b)
        BY <2>1, <3>1, IndicesArePositive
      <4>2. j < seed[b].i \/ seed[b].i <= j
        BY <1>1, <4>1
      <4> QED BY <1>3, <1>4, <3>1, <4>1, <4>2
    <3> QED BY <3>1
  <2>5. CASE /\ Auth!Register(b, DemoUsers[k], DemoUsers[k]) /\ UNCHANGED faults
             /\ Becomes(b, [seed[b] EXCEPT !.at = "registering", !.i = k + 1])
    <3>1. DemoUsers[k] \in Demo
      BY <2>1 DEF Demo, Range
    <3>2. AccountsInv'
      BY <1>0, <2>5, <3>1, RegisterKeepsAccounts
    <3>3. /\ reg'[b] = [step |-> "email", name |-> DemoUsers[k], email |-> DemoUsers[k]]
          /\ \A a \in Browsers : a # b => reg'[a] = reg[a]
      BY <1>0, <2>5 DEF AccountsInv, AccountTypes, Auth!Register
    <3>4. faults' = faults
      BY <2>5
    <3>5. /\ DOMAIN seed'[b] = DOMAIN seed[b]
          /\ seed'[b].at = "registering" /\ seed'[b].i = k + 1 /\ seed'[b].users = seed[b].users
          /\ seed'[b].movies = seed[b].movies
          /\ seed'[b].only = seed[b].only /\ seed'[b].hurt = seed[b].hurt
      BY <1>0, <2>5 DEF Becomes, ScriptType
    <3>6. ScriptType(b)'
      <4>1. seed'[b].at \in Places /\ seed'[b].at \notin HasCreated
        BY <3>5 DEF Places, HasCreated
      <4>2. /\ seed'[b].i \in Nat \ {0} /\ Len(movies') \in Nat /\ faults' \in Nat /\ faults <= faults'
        BY <1>0, <1>1, <2>3, <3>4, <3>5
      <4> QED BY <1>1, <3>5, <4>1, <4>2, TypeMoves
    <3>7. RegisterProgress(b)'
      <4>1. Auth!Row(b)' = Own(DemoUsers[k]) /\ reg'[b].step # "idle"
        BY <3>3 DEF Auth!Row, Own
      <4>2. seed'[b].i = k + 1
        BY <3>5
      <4>3. seed'[b].i - 1 = k
        BY <2>3, <4>2
      <4>4. \A n : Taken(n, Len(users))' <=> Taken(n, Len(users))
        BY <1>1 DEF Taken
      <4> QED BY <2>1, <2>4, <3>5, <4>1, <4>3, <4>4 DEF RegisterProgress, At, HasUsers, Own
    <3>8. CreateProgress(b)' /\ ReviewProgress(b)' /\ FollowProgress(b)'
      BY <3>5 DEF CreateProgress, ReviewProgress, FollowProgress, At, HasCreated
    <3> QED BY <1>0, <1>1, <2>5, <3>2, <3>3, <3>4, <3>6, <3>7, <3>8, OneScriptMoves DEF Progress
  <2>6. CASE Swallowed(b, k) /\ UNCHANGED accounts
    <3>1. /\ Becomes(b, [seed[b] EXCEPT !.i = k + 1, !.hurt = TRUE]) /\ faults' = faults + 1
      BY <2>6 DEF Swallowed, Fault
    <3>2. /\ DOMAIN seed'[b] = DOMAIN seed[b]
          /\ seed'[b].at = "register" /\ seed'[b].i = k + 1 /\ seed'[b].users = seed[b].users
          /\ seed'[b].movies = seed[b].movies
          /\ seed'[b].only = seed[b].only /\ seed'[b].hurt = TRUE
      BY <1>0, <1>1, <3>1 DEF Becomes, ScriptType, At
    <3>3. faults' \in Nat /\ faults <= faults' /\ faults' > 0
      BY <1>0, <3>1
    <3>4. ScriptType(b)'
      <4>1. seed'[b].at \in Places /\ seed'[b].at \notin HasCreated
        BY <3>2 DEF Places, HasCreated
      <4>2. /\ seed'[b].i \in Nat \ {0} /\ Len(movies') \in Nat
        BY <1>0, <1>1, <2>3, <3>2
      <4> QED BY <1>1, <3>2, <3>3, <4>1, <4>2, TypeMoves
    <3>5. Progress(b)'
      BY <3>2 DEF Progress, RegisterProgress, CreateProgress, ReviewProgress, FollowProgress, At,
                  HasUsers, HasCreated
    <3> QED BY <1>0, <1>1, <2>6, <3>1, <3>3, <3>4, <3>5, ScriptStep
  <2> QED BY <2>2, <2>5, <2>6
<1> QED BY <1>5, <1>6

LEMMA RegisteredKeeps ==
    ASSUME SeedInv, Grew, NEW b \in Browsers, Registered(b) PROVE SeedInv'
<1>0. /\ SeedTypes /\ AccountsInv /\ ScriptType(b) /\ Progress(b) /\ DOMAIN seed = Browsers
      /\ movies \in Seq(Range(DemoMovies)) /\ Len(users) \in Nat /\ Len(movies) \in Nat
      /\ faults \in Nat /\ faults <= faults
  BY ScriptFacts
<1>1. /\ At(b, "registering") /\ movies' = movies /\ UNCHANGED accounts /\ users' = users
      /\ faults' = faults /\ seed[b].i \in Nat \ {0}
      /\ Becomes(b, [seed[b] EXCEPT !.at = "register"])
  BY <1>0 DEF Registered, stores, accounts, bounds, ScriptType
<1>2. /\ DOMAIN seed'[b] = DOMAIN seed[b]
      /\ seed'[b].at = "register" /\ seed'[b].i = seed[b].i /\ seed'[b].users = seed[b].users
      /\ seed'[b].movies = seed[b].movies
      /\ seed'[b].only = seed[b].only /\ seed'[b].hurt = seed[b].hurt
  BY <1>0, <1>1 DEF Becomes, ScriptType
<1>3. ScriptType(b)'
  <2>1. seed'[b].at \in Places /\ seed'[b].at \notin HasCreated
    BY <1>2 DEF Places, HasCreated
  <2>2. /\ seed'[b].i \in Nat \ {0} /\ Len(movies') \in Nat /\ faults' \in Nat /\ faults <= faults'
    BY <1>0, <1>1, <1>2
  <2> QED BY <1>1, <1>2, <2>1, <2>2, TypeMoves
<1>4. RegisterProgress(b)'
  <2>1. PICK j \in DOMAIN DemoUsers : j = seed[b].i - 1
    BY <1>0, <1>1 DEF Progress, RegisterProgress
  <2>2. reg[b].step # "idle" /\ Auth!Row(b) = Own(DemoUsers[j])
    BY <1>0, <1>1, <2>1 DEF Progress, RegisterProgress
  <2>3. reg[b].name = DemoUsers[j] /\ reg[b].email = DemoUsers[j]
    BY <2>2 DEF Auth!Row, Own
  <2>4. reg[b].step = "ok" \/ reg[b].step = "conflict"
    BY <2>2 DEF Registered, Auth!Ended
  <2>5. Taken(DemoUsers[j], Len(users))
    BY <1>0, <2>2, <2>3, <2>4
       DEF AccountsInv, AnswersAreTrue, Auth!AnswersAreTrue, Auth!HasEmail, Auth!HasName, Own, Taken
  <2>6. ~seed[b].hurt => \A k \in DOMAIN DemoUsers : k < seed[b].i => Taken(DemoUsers[k], Len(users))
    <3>1. ~seed[b].hurt => \A k \in DOMAIN DemoUsers : k < j => Taken(DemoUsers[k], Len(users))
      BY <1>0, <1>1, <2>1 DEF Progress, RegisterProgress
    <3>2. \A k \in DOMAIN DemoUsers : k < seed[b].i => k < j \/ k = j
      BY <1>1, <2>1, IndicesArePositive
    <3> QED BY <2>5, <3>1, <3>2
  <2> QED BY <1>1, <1>2, <2>6 DEF RegisterProgress, At, HasUsers, Taken
<1>5. CreateProgress(b)' /\ ReviewProgress(b)' /\ FollowProgress(b)'
  BY <1>2 DEF CreateProgress, ReviewProgress, FollowProgress, At, HasCreated
<1> QED BY <1>0, <1>1, <1>3, <1>4, <1>5, ScriptStep DEF Progress

\* What the users are taken to be, and that the movies are there, outlives the later loops.
LEMMA LaterRegisterProgress ==
    ASSUME SeedInv, Grew, NEW b \in Browsers, seed[b].at \in HasUsers, seed'[b].at \in HasUsers,
           seed'[b].users = seed[b].users, seed'[b].only = seed[b].only,
           seed'[b].hurt = seed[b].hurt \/ seed'[b].hurt = TRUE
    PROVE  RegisterProgress(b)'
<1>1. /\ seed[b].users \in 0..Len(users) /\ Len(users) \in Nat
      /\ \A k \in 1..Len(users) : users'[k] = users[k]
  BY ScriptFacts DEF ScriptType, Grew
<1>2. \A k \in 1..seed[b].users : users'[k] = users[k]
  BY <1>1
<1>3. \A n : Taken(n, seed[b].users) => Taken(n, seed[b].users)'
  BY <1>2 DEF Taken
<1>4. ~seed[b].only => seed[b].users > 0 /\ (~seed[b].hurt => \A n \in Demo : Taken(n, seed[b].users))
  BY DEF SeedInv, Progress, RegisterProgress
<1>5. seed'[b].at \notin {"register", "registering", "users again"}
  BY DEF HasUsers
<1> QED BY <1>3, <1>4, <1>5 DEF RegisterProgress, At

LEMMA LaterCreateProgress ==
    ASSUME SeedInv, Grew, NEW b \in Browsers, seed[b].at \in HasCreated, seed'[b].at \in HasCreated,
           seed'[b].only = seed[b].only
    PROVE  CreateProgress(b)'
<1>1. seed'[b].at # "create"
  BY DEF HasCreated
<1>2. ~seed[b].only => Range(DemoMovies) \subseteq Range(movies)
  BY DEF SeedInv, Progress, CreateProgress
<1> QED BY <1>1, <1>2 DEF CreateProgress, At, Grew

LEMMA GetMoviesKeeps ==
    ASSUME SeedInv, Grew, NEW b \in Browsers,
           GetMovies(b, "movies", "create") \/ GetMovies(b, "movies again", "movies read")
    PROVE  SeedInv'
<1>1. /\ UNCHANGED accounts /\ movies' = movies /\ users' = users
      /\ SeedTypes /\ ScriptType(b) /\ Progress(b) /\ DOMAIN seed = Browsers
      /\ movies \in Seq(Range(DemoMovies)) /\ Len(users) \in Nat /\ Len(movies) \in Nat
      /\ faults \in Nat /\ faults <= faults /\ Len(users) > 0
  BY ScriptFacts DEF GetMovies, accounts, stores
<1>2. CASE Raised(b)
  BY <1>1, <1>2, RaiseKeeps
<1>3. ASSUME NEW before, NEW after \in {"create", "movies read"},
             At(b, before), UNCHANGED faults,
             Becomes(b, [seed[b] EXCEPT !.at = after, !.i = 1, !.movies = Len(movies)]),
             after = "create" => before = "movies", after = "movies read" => before = "movies again"
      PROVE  SeedInv'
  <2>0. faults' = faults
    BY <1>3
  <2>1. /\ DOMAIN seed'[b] = DOMAIN seed[b]
        /\ seed'[b].at = after /\ seed'[b].i = 1 /\ seed'[b].users = seed[b].users
        /\ seed'[b].movies = Len(movies)
        /\ seed'[b].only = seed[b].only /\ seed'[b].hurt = seed[b].hurt
    BY <1>1, <1>3 DEF Becomes, ScriptType
  <2>2. /\ seed[b].at \in HasUsers /\ seed'[b].at \in HasUsers /\ seed'[b].at \in Places
        /\ seed'[b].at \in HasCreated => seed[b].at = "movies again" /\ seed[b].at \in HasCreated \ {"done"}
    BY <1>3, <2>1 DEF HasUsers, HasCreated, Places, At
  <2>3. ScriptType(b)'
    <3>1. /\ seed'[b].i \in Nat \ {0} /\ Len(movies') \in Nat
          /\ faults' \in Nat /\ faults <= faults'
      BY <1>1, <2>0, <2>1, IndicesArePositive
    <3>2. seed'[b].at \in HasCreated \ {"done"} => ~seed[b].only
      BY <1>1, <2>2 DEF ScriptType
    <3> QED BY <1>1, <2>1, <2>2, <3>1, <3>2, TypeMoves
  <2>4. RegisterProgress(b)'
    BY <2>1, <2>2, LaterRegisterProgress
  <2>5. CreateProgress(b)'
    <3>1. CASE seed'[b].at \in HasCreated
      BY <2>1, <2>2, <3>1, LaterCreateProgress
    <3>2. CASE seed'[b].at \notin HasCreated
      BY <2>1, <3>2, IndicesArePositive DEF CreateProgress
    <3> QED BY <3>1, <3>2
  <2>6. ReviewProgress(b)' /\ FollowProgress(b)'
    BY <1>3, <2>1 DEF ReviewProgress, FollowProgress, At
  <2> QED BY <1>1, <1>3, <2>0, <2>3, <2>4, <2>5, <2>6, ScriptStep DEF Progress
<1> QED BY <1>2, <1>3 DEF GetMovies

LEMMA CreateNextKeeps ==
    ASSUME SeedInv, Grew, NEW b \in Browsers, CreateNext(b) PROVE SeedInv'
<1>0. /\ SeedTypes /\ AccountsInv /\ ScriptType(b) /\ Progress(b) /\ DOMAIN seed = Browsers
      /\ movies \in Seq(Range(DemoMovies)) /\ Len(users) \in Nat /\ Len(movies) \in Nat
      /\ faults \in Nat /\ faults <= faults
  BY ScriptFacts
<1>1. /\ At(b, "create") /\ UNCHANGED accounts /\ users' = users /\ seed[b].i \in Nat \ {0}
      /\ seed[b].at \in HasUsers
  BY <1>0 DEF CreateNext, accounts, ScriptType, At, HasUsers
<1>2. \A k \in DOMAIN DemoMovies :
         k \notin MissingTitles(b) /\ seed[b].i <= k => DemoMovies[k] \in Range(movies)
  <2>1. ASSUME NEW j \in 1..seed[b].movies PROVE movies[j] \in Range(movies)
    <3>1. j \in DOMAIN movies
      BY <1>0 DEF ScriptType
    <3> QED BY <3>1 DEF Range
  <2>2. ASSUME NEW k \in DOMAIN DemoMovies, k \notin MissingTitles(b), seed[b].i <= k
        PROVE  \E j \in 1..seed[b].movies : movies[j] = DemoMovies[k]
    <3>1. k \in seed[b].i..Len(DemoMovies)
      BY <1>0, <1>1, <2>2, BoundsOfTables
    <3> QED BY <2>2, <3>1 DEF MissingTitles, Todo
  <2> QED BY <2>1, <2>2
<1>3. \A k \in DOMAIN DemoMovies : k < seed[b].i => DemoMovies[k] \in Range(movies)
  BY <1>0, <1>1 DEF Progress, CreateProgress
<1>4. CASE MissingTitles(b) = {}
  <2>1. faults' = faults /\ movies' = movies
    BY <1>4 DEF CreateNext
  <2> DEFINE after == IF seed[b].only THEN "done" ELSE "movies again"
  <2>2. Becomes(b, [seed[b] EXCEPT !.at = after, !.i = 1])
    BY <1>4 DEF CreateNext, Goto
  <2>3. (seed[b].only => after = "done") /\ (~seed[b].only => after = "movies again")
    OBVIOUS
  <2>4. after \in {"done", "movies again"}
    OBVIOUS
  <2> HIDE DEF after
  <2>5. /\ DOMAIN seed'[b] = DOMAIN seed[b]
        /\ seed'[b].at = after /\ seed'[b].i = 1 /\ seed'[b].users = seed[b].users
        /\ seed'[b].movies = seed[b].movies
        /\ seed'[b].only = seed[b].only /\ seed'[b].hurt = seed[b].hurt
    BY <1>0, <2>2 DEF Becomes, ScriptType
  <2>6. ScriptType(b)'
    <3>1. seed'[b].at \in Places /\ (seed'[b].at \in HasCreated \ {"done"} => ~seed[b].only)
      BY <2>3, <2>4, <2>5 DEF Places, HasCreated
    <3>2. /\ seed'[b].i \in Nat \ {0} /\ Len(movies') \in Nat /\ faults' \in Nat /\ faults <= faults'
      BY <1>0, <2>1, <2>5, IndicesArePositive
    <3> QED BY <1>1, <2>5, <3>1, <3>2, TypeMoves
  <2>7. RegisterProgress(b)'
    <3>1. seed'[b].at \in HasUsers
      BY <2>4, <2>5 DEF HasUsers
    <3> QED BY <1>1, <2>5, <3>1, LaterRegisterProgress
  <2>8. CreateProgress(b)'
    <3>1. ASSUME NEW k \in DOMAIN DemoMovies PROVE DemoMovies[k] \in Range(movies)
      <4>1. k \in Nat
        BY IndicesArePositive
      <4>2. k < seed[b].i \/ seed[b].i <= k
        BY <1>1, <4>1
      <4> QED BY <1>2, <1>3, <1>4, <4>2
    <3>2. Range(DemoMovies) \subseteq Range(movies')
      BY <2>1, <3>1 DEF Range
    <3>3. seed'[b].at # "create"
      BY <2>4, <2>5
    <3> QED BY <3>2, <3>3 DEF CreateProgress, At
  <2>9. ReviewProgress(b)' /\ FollowProgress(b)'
    BY <2>3, <2>4, <2>5 DEF ReviewProgress, FollowProgress, At
  <2> QED BY <1>0, <1>1, <2>1, <2>2, <2>6, <2>7, <2>8, <2>9, ScriptStep DEF Progress
<1>5. CASE MissingTitles(b) # {}
  <2> DEFINE k == First(MissingTitles(b))
  <2>1. /\ k \in MissingTitles(b) /\ \A j \in MissingTitles(b) : k <= j
        /\ k \in DOMAIN DemoMovies /\ k \in Nat
    BY <1>0, <1>5, TodoIsTyped, FirstIsLeast
  <2>2. \/ Insert(DemoMovies[k], 1) /\ After(b, k) /\ UNCHANGED faults
        \/ \E n \in Nat \ {0} : Insert(DemoMovies[k], n) /\ After(b, k) /\ Fault
        \/ \E n \in Nat : Insert(DemoMovies[k], n) /\ Raised(b)
    BY <1>5, CreateCases
  <2> HIDE DEF k
  <2>3. DemoMovies[k] \in Range(DemoMovies)
    BY <2>1 DEF Range
  <2>4. CASE \E n \in Nat : Insert(DemoMovies[k], n) /\ Raised(b)
    <3>1. PICK n \in Nat : Insert(DemoMovies[k], n) /\ Raised(b)
      BY <2>4
    <3>2. movies' \in Seq(Range(DemoMovies))
      BY <1>0, <2>3, <3>1, TitlesGrow
    <3> QED BY <1>1, <3>1, <3>2, RaiseKeeps
  <2>5. ASSUME NEW n \in Nat \ {0}, Insert(DemoMovies[k], n), After(b, k),
               faults' = faults \/ faults' = faults + 1
        PROVE  SeedInv'
    <3>1. /\ movies' \in Seq(Range(DemoMovies)) /\ Range(movies) \subseteq Range(movies')
          /\ DemoMovies[k] \in Range(movies')
      BY <1>0, <2>3, <2>5, TitlesGrow
    <3>2. Becomes(b, [seed[b] EXCEPT !.i = k + 1])
      BY <2>5 DEF After
    <3>3. /\ DOMAIN seed'[b] = DOMAIN seed[b]
          /\ seed'[b].at = "create" /\ seed'[b].i = k + 1 /\ seed'[b].users = seed[b].users
          /\ seed'[b].movies = seed[b].movies
          /\ seed'[b].only = seed[b].only /\ seed'[b].hurt = seed[b].hurt
      BY <1>0, <1>1, <3>2 DEF Becomes, ScriptType, At
    <3>4. ScriptType(b)'
      <4>1. seed'[b].at \in Places /\ seed'[b].at \notin HasCreated
        BY <3>3 DEF Places, HasCreated
      <4>2. k + 1 \in Nat \ {0}
        BY <2>1
      <4>3. seed'[b].i \in Nat \ {0} /\ Len(movies') \in Nat /\ faults' \in Nat /\ faults <= faults'
        BY <1>0, <2>5, <3>1, <3>3, <4>2
      <4> QED BY <1>1, <3>3, <4>1, <4>3, TypeMoves
    <3>5. RegisterProgress(b)'
      <4>1. seed'[b].at \in HasUsers
        BY <3>3 DEF HasUsers
      <4> QED BY <1>1, <3>3, <4>1, LaterRegisterProgress
    <3>6. \A j \in DOMAIN DemoMovies : j < k + 1 => DemoMovies[j] \in Range(movies')
      <4>1. ASSUME NEW j \in DOMAIN DemoMovies, j < k PROVE DemoMovies[j] \in Range(movies)
        <5>1. j \in Nat /\ j \notin MissingTitles(b)
          BY <2>1, <4>1, IndicesArePositive
        <5>2. j < seed[b].i \/ seed[b].i <= j
          BY <1>1, <5>1
        <5> QED BY <1>2, <1>3, <5>1, <5>2
      <4>2. \A j \in DOMAIN DemoMovies : j < k + 1 => j < k \/ j = k
        BY <2>1, IndicesArePositive
      <4> QED BY <3>1, <4>1, <4>2
    <3>7. CreateProgress(b)'
      BY <3>3, <3>6 DEF CreateProgress, At, HasCreated
    <3>8. ReviewProgress(b)' /\ FollowProgress(b)'
      BY <3>3 DEF ReviewProgress, FollowProgress, At
    <3>9. faults' \in Nat /\ faults <= faults'
      BY <1>0, <2>5
    <3> QED BY <1>1, <3>1, <3>2, <3>4, <3>5, <3>7, <3>8, <3>9, ScriptStep DEF Progress
  <2> QED BY <2>2, <2>4, <2>5 DEF Fault
<1> QED BY <1>4, <1>5

\* Whoever is known to have an account of their own can log in and is in the list.
LEMMA KnownCanAct ==
    ASSUME SeedInv, NEW b \in Browsers, seed[b].at \in HasCreated \ {"done"}, NEW n \in Known(b)
    PROVE  CanLogin(n) /\ n \in Listed(b) /\ n \in Demo \cup {Viewer} /\ ActsAs(n) = n
<1>1. /\ seed[b].users \in 0..Len(users) /\ Len(users) \in Nat /\ ~seed[b].only
      /\ users[1] = Own(Viewer) /\ seed[b].at \in HasUsers
  BY ScriptFacts DEF ScriptType, AccountsInv, RowsAreKnown, HasUsers, HasCreated
<1>2. seed[b].users > 0
  BY <1>1 DEF SeedInv, Progress, RegisterProgress
<1>3. CASE n = Viewer
  <2>1. 1 \in 1..seed[b].users
    BY <1>1, <1>2
  <2>2. Viewer \in Listed(b)
    BY <1>1, <2>1 DEF Listed, Own
  <2> QED BY <1>3, <2>2, PeopleAssumption DEF CanLogin, ActsAs
<1>4. CASE n # Viewer
  <2>1. n \in Demo
    BY <1>4 DEF Known
  <2>2. PICK k \in 1..seed[b].users : users[k] = Own(n)
    BY <1>4 DEF Known
  <2>3. k \in 1..Len(users)
    BY <1>1, <2>2
  <2>4. HasDemoAccount(n)
    BY <2>2, <2>3 DEF HasDemoAccount, Own
  <2>5. n \in Listed(b)
    BY <2>2 DEF Listed, Own
  <2> QED BY <2>1, <2>4, <2>5 DEF CanLogin, ActsAs
<1> QED BY <1>3, <1>4

LEMMA GetReviewsKeeps ==
    ASSUME SeedInv, Grew, NEW b \in Browsers, GetReviews(b) PROVE SeedInv'
<1>0. /\ SeedTypes /\ AccountsInv /\ ScriptType(b) /\ Progress(b) /\ DOMAIN seed = Browsers
      /\ movies \in Seq(Range(DemoMovies)) /\ Len(users) \in Nat /\ Len(movies) \in Nat
      /\ faults \in Nat /\ faults <= faults
  BY ScriptFacts
<1>1. /\ At(b, "movies read") /\ UNCHANGED accounts /\ users' = users /\ movies' = movies
      /\ reviews' = reviews /\ AllReviews' = AllReviews
  BY DEF GetReviews, accounts, stores, AllReviews
<1>2. PICK keys \in SUBSET AllReviews : Becomes(b, [seed[b] EXCEPT !.at = "review", !.keys = keys])
  BY DEF GetReviews
<1>3. /\ DOMAIN seed'[b] = DOMAIN seed[b]
      /\ seed'[b].at = "review" /\ seed'[b].i = seed[b].i /\ seed'[b].users = seed[b].users
      /\ seed'[b].movies = seed[b].movies /\ seed'[b].keys = keys
      /\ seed'[b].only = seed[b].only /\ seed'[b].hurt = seed[b].hurt
  BY <1>0, <1>2 DEF Becomes, ScriptType
<1>4. /\ seed[b].at \in HasUsers /\ seed'[b].at \in HasUsers /\ seed'[b].at \in Places
      /\ seed[b].at \in HasCreated \ {"done"} /\ seed'[b].at \in HasCreated \ {"done"}
  BY <1>1, <1>3 DEF HasUsers, HasCreated, Places, At
<1>5. faults' \in Nat /\ faults <= faults'
  <2>1. faults' = faults \/ faults' = faults + 1
    BY DEF GetReviews, Fault
  <2> QED BY <1>0, <2>1
<1>6. seed[b].i = 1
  BY <1>0, <1>1 DEF Progress, ReviewProgress
<1>7. ScriptType(b)'
  <2>1. /\ seed'[b].i \in Nat \ {0} /\ Len(movies') \in Nat
    BY <1>0, <1>1, <1>3, <1>6, IndicesArePositive
  <2>2. ~seed[b].only
    BY <1>0, <1>4 DEF ScriptType
  <2> QED BY <1>1, <1>3, <1>4, <1>5, <2>1, <2>2, TypeMoves
<1>8. RegisterProgress(b)' /\ CreateProgress(b)'
  BY <1>3, <1>4, LaterRegisterProgress, LaterCreateProgress
<1>9. ReviewProgress(b)'
  <2>1. \A key \in seed'[b].keys : key \in AllReviews'
    BY <1>1, <1>3
  <2>2. seed'[b].i = 1 /\ \A k : k \notin 1..1 - 1
    BY <1>3, <1>6
  <2> QED BY <1>3, <2>1, <2>2 DEF ReviewProgress, At
<1>10. FollowProgress(b)'
  BY <1>3 DEF FollowProgress, At
<1> QED BY <1>0, <1>1, <1>2, <1>5, <1>7, <1>8, <1>9, <1>10, ScriptStep DEF Progress

LEMMA UpToNext ==
    ASSUME NEW k \in Nat \ {0}, NEW j \in 1..(k + 1) - 1 PROVE j = k \/ (j \in Nat \ {0} /\ j < k)
OBVIOUS

\* seed_demo_reviews: a review is posted under the name it was planned for, or for nobody
\* known; a key that is skipped is there, or nobody can write it.
LEMMA ReviewNextKeeps ==
    ASSUME SeedInv, Grew, NEW b \in Browsers, ReviewNext(b) PROVE SeedInv'
<1>0. /\ SeedTypes /\ AccountsInv /\ ScriptType(b) /\ Progress(b) /\ DOMAIN seed = Browsers
      /\ movies \in Seq(Range(DemoMovies)) /\ Len(users) \in Nat /\ Len(movies) \in Nat
      /\ faults \in Nat /\ faults <= faults
  BY ScriptFacts
<1>1. /\ At(b, "review") /\ UNCHANGED accounts /\ users' = users /\ movies' = movies
      /\ seed[b].i \in Nat \ {0} /\ AllReviews \subseteq AllReviews'
  BY <1>0 DEF ReviewNext, accounts, ScriptType, Grew
<1>2. seed[b].at \in HasUsers /\ seed[b].at \in HasCreated \ {"done"} /\ ~seed[b].only
  BY <1>0, <1>1 DEF HasUsers, HasCreated, At, ScriptType
<1>3. \A key \in seed[b].keys : key[1] \in Demo \cup {Viewer} => key \in AllReviews
  BY <1>0, <1>1 DEF Progress, ReviewProgress
<1>4. ASSUME NEW k \in Nat \ {0}, k <= MaxReviews(b), k \notin MissingReviews(b), seed[b].i <= k
      PROVE  Reviewed(b, k)
  <2>1. MaxReviews(b) \in Int
    BY <1>0, DemoAssumption DEF MaxReviews, ScriptType
  <2>2. k \in seed[b].i..MaxReviews(b)
    BY <1>1, <1>4, <2>1
  <2>3. Key(b, k) \in seed[b].keys \/ ~CanLogin(Key(b, k)[1])
    BY <1>4, <2>2 DEF MissingReviews, Todo
  <2> QED BY <1>2, <1>3, <2>3, KnownCanAct DEF Reviewed
<1>5. ~seed[b].hurt => \A k \in 1..seed[b].i - 1 : Reviewed(b, k)
  BY <1>0, <1>1 DEF Progress, ReviewProgress
<1>6. CASE MissingReviews(b) = {}
  <2>1. reviews' = reviews /\ faults' = faults
    BY <1>6 DEF ReviewNext
  <2>2. Becomes(b, [seed[b] EXCEPT !.at = "follow", !.i = 1, !.keys = {}])
    BY <1>6 DEF ReviewNext
  <2>3. /\ DOMAIN seed'[b] = DOMAIN seed[b]
        /\ seed'[b].at = "follow" /\ seed'[b].i = 1 /\ seed'[b].users = seed[b].users
        /\ seed'[b].movies = seed[b].movies
        /\ seed'[b].only = seed[b].only /\ seed'[b].hurt = seed[b].hurt
    BY <1>0, <2>2 DEF Becomes, ScriptType
  <2>4. seed'[b].at \in HasUsers /\ seed'[b].at \in Places /\ seed'[b].at \in HasCreated \ {"done"}
    BY <2>3 DEF HasUsers, HasCreated, Places
  <2>5. ScriptType(b)'
    <3>1. /\ seed'[b].i \in Nat \ {0} /\ Len(movies') \in Nat /\ faults' \in Nat /\ faults <= faults'
      BY <1>0, <1>1, <2>1, <2>3, IndicesArePositive
    <3> QED BY <1>1, <1>2, <2>3, <2>4, <3>1, TypeMoves
  <2>6. RegisterProgress(b)' /\ CreateProgress(b)'
    BY <1>2, <2>3, <2>4, LaterRegisterProgress, LaterCreateProgress
  <2>7. ~seed[b].hurt => \A k \in 1..MaxReviews(b) : Reviewed(b, k)
    <3>1. ASSUME ~seed[b].hurt, NEW k \in 1..MaxReviews(b) PROVE Reviewed(b, k)
      <4>1. k \in Nat \ {0} /\ k <= MaxReviews(b)
        BY <1>0, DemoAssumption DEF MaxReviews, ScriptType
      <4>2. k \in 1..seed[b].i - 1 \/ seed[b].i <= k
        BY <1>1, <4>1
      <4> QED BY <1>4, <1>5, <1>6, <3>1, <4>1, <4>2
    <3> QED BY <3>1
  <2>8. /\ \A k : Reviewed(b, k) => Reviewed(b, k)'
        /\ MaxReviews(b)' = MaxReviews(b)
    BY <1>0, <1>1, <2>3, ReadsStay DEF Reviewed
  <2>9. ReviewProgress(b)'
    BY <2>3, <2>7, <2>8 DEF ReviewProgress, At
  <2>10. FollowProgress(b)'
    BY <2>3, IndicesArePositive DEF FollowProgress, At, Pairs
  <2> QED BY <1>0, <1>1, <2>1, <2>2, <2>5, <2>6, <2>9, <2>10, ScriptStep DEF Progress
<1>7. CASE MissingReviews(b) # {}
  <2>1. PICK k \in Nat \ {0} :
           /\ k = First(MissingReviews(b)) /\ k \in MissingReviews(b)
           /\ \A j \in MissingReviews(b) : k <= j
    <3>1. MissingReviews(b) \in SUBSET Nat /\ MissingReviews(b) \in SUBSET (Nat \ {0})
      BY <1>0, TodoIsTyped
    <3> QED BY <1>7, <3>1, FirstIsLeast
  <2>0. PICK key : key = Key(b, k)
    OBVIOUS
  <2> DEFINE posted == [key EXCEPT ![1] = ActsAs(key[1])]
             added == [seed[b] EXCEPT !.i = k + 1, !.keys = @ \cup {key}]
  <2>2. \/ Post(posted, 1) /\ Becomes(b, added) /\ UNCHANGED faults
        \/ \E n \in Nat \ {0} : Post(posted, n) /\ Becomes(b, added) /\ Fault
        \/ \E n \in Nat : Post(posted, n) /\ Swallowed(b, k)
    BY <1>7, <2>0, <2>1, PostCases
  <2>3. ActsAs(key[1]) = key[1] => posted = key
    BY <2>0 DEF Key
  <2>4. key[1] \in Demo \cup {Viewer} => posted = key
    BY <2>3, PeopleAssumption DEF ActsAs
  <2>5. k <= MaxReviews(b)
    <3>1. MaxReviews(b) \in Int
      BY <1>0, DemoAssumption DEF MaxReviews, ScriptType
    <3> QED BY <1>1, <2>1, <3>1 DEF MissingReviews, Todo
  <2>6. ~seed[b].hurt => \A j \in Nat \ {0} : j < k => Reviewed(b, j)
    <3>1. ASSUME ~seed[b].hurt, NEW j \in Nat \ {0}, j < k PROVE Reviewed(b, j)
      <4>1. j \notin MissingReviews(b)
        BY <2>1, <3>1
      <4>2. j <= MaxReviews(b)
        <5>1. MaxReviews(b) \in Int
          BY <1>0, DemoAssumption DEF MaxReviews, ScriptType
        <5> QED BY <2>1, <2>5, <3>1, <5>1
      <4>3. j \in 1..seed[b].i - 1 \/ seed[b].i <= j
        BY <1>1
      <4> QED BY <1>4, <1>5, <3>1, <4>1, <4>2, <4>3
    <3> QED BY <3>1
  <2>7. k + 1 \in Nat \ {0}
    BY <2>1
  <2> HIDE DEF posted
  <2>8. ASSUME NEW n \in Nat \ {0}, Post(posted, n), Becomes(b, added),
               faults' = faults \/ faults' = faults + 1
        PROVE  SeedInv'
    <3>1. posted \in AllReviews'
      <4>1. n \in Nat /\ n # 0
        OBVIOUS
      <4> QED BY <2>8, <4>1, ReviewsGrow
    <3>2. /\ DOMAIN seed'[b] = DOMAIN seed[b]
          /\ seed'[b].at = "review" /\ seed'[b].i = k + 1 /\ seed'[b].users = seed[b].users
          /\ seed'[b].movies = seed[b].movies /\ seed'[b].keys = seed[b].keys \cup {key}
          /\ seed'[b].only = seed[b].only /\ seed'[b].hurt = seed[b].hurt
      BY <1>0, <1>1, <2>8 DEF Becomes, ScriptType, At
    <3>3. seed'[b].at \in HasUsers /\ seed'[b].at \in Places /\ seed'[b].at \in HasCreated \ {"done"}
      BY <3>2 DEF HasUsers, HasCreated, Places
    <3>4. faults' \in Nat /\ faults <= faults'
      BY <1>0, <2>8
    <3>5. ScriptType(b)'
      <4>1. seed'[b].i \in Nat \ {0} /\ Len(movies') \in Nat
        BY <1>0, <1>1, <2>7, <3>2
      <4> QED BY <1>1, <1>2, <3>2, <3>3, <3>4, <4>1, TypeMoves
    <3>6. RegisterProgress(b)' /\ CreateProgress(b)'
      BY <1>2, <3>2, <3>3, LaterRegisterProgress, LaterCreateProgress
    <3>7. \A x \in seed'[b].keys : x[1] \in Demo \cup {Viewer} => x \in AllReviews'
      BY <1>1, <1>3, <2>4, <3>1, <3>2
    <3>8. /\ \A j : Reviewed(b, j) => Reviewed(b, j)'
          /\ Key(b, k)' = Key(b, k) /\ Known(b)' = Known(b)
      <4>1. Known(b)' = Known(b) /\ \A j : Key(b, j)' = Key(b, j)
        BY <1>0, <3>2, ReadsStay
      <4>2. \A j : Reviewed(b, j) => Reviewed(b, j)'
        BY <1>1, <4>1 DEF Reviewed
      <4> QED BY <4>1, <4>2
    <3>9. Reviewed(b, k)'
      <4>1. key[1] \in Known(b) => key \in AllReviews'
        BY <2>4, <3>1 DEF Known
      <4>2. Key(b, k)' = key
        BY <2>0, <3>8
      <4> QED BY <3>8, <4>1, <4>2 DEF Reviewed
    <3>10. ~seed[b].hurt => \A j \in 1..(k + 1) - 1 : Reviewed(b, j)'
      <4>1. \A j \in 1..(k + 1) - 1 : j = k \/ (j \in Nat \ {0} /\ j < k)
        BY <2>1, UpToNext
      <4> QED BY <2>6, <3>8, <3>9, <4>1
    <3>11. ReviewProgress(b)'
      BY <3>2, <3>7, <3>10 DEF ReviewProgress, At
    <3>12. FollowProgress(b)'
      BY <3>2 DEF FollowProgress, At
    <3> QED BY <1>0, <1>1, <2>8, <3>4, <3>5, <3>6, <3>11, <3>12, ScriptStep DEF Progress
  <2>9. CASE Swallowed(b, k)
    <3>1. /\ Becomes(b, [seed[b] EXCEPT !.i = k + 1, !.hurt = TRUE]) /\ faults' = faults + 1
      BY <2>9 DEF Swallowed, Fault
    <3>2. /\ DOMAIN seed'[b] = DOMAIN seed[b]
          /\ seed'[b].at = "review" /\ seed'[b].i = k + 1 /\ seed'[b].users = seed[b].users
          /\ seed'[b].movies = seed[b].movies /\ seed'[b].keys = seed[b].keys
          /\ seed'[b].only = seed[b].only /\ seed'[b].hurt = TRUE
      BY <1>0, <1>1, <3>1 DEF Becomes, ScriptType, At
    <3>3. seed'[b].at \in HasUsers /\ seed'[b].at \in Places /\ seed'[b].at \in HasCreated \ {"done"}
      BY <3>2 DEF HasUsers, HasCreated, Places
    <3>4. faults' \in Nat /\ faults <= faults' /\ faults' > 0
      BY <1>0, <3>1
    <3>5. ScriptType(b)'
      <4>1. seed'[b].i \in Nat \ {0} /\ Len(movies') \in Nat
        BY <1>0, <1>1, <2>7, <3>2
      <4> QED BY <1>1, <1>2, <3>2, <3>3, <3>4, <4>1, TypeMoves
    <3>6. RegisterProgress(b)' /\ CreateProgress(b)'
      BY <1>2, <3>2, <3>3, LaterRegisterProgress, LaterCreateProgress
    <3>7. ReviewProgress(b)' /\ FollowProgress(b)'
      BY <1>1, <1>3, <3>2 DEF ReviewProgress, FollowProgress, At
    <3> QED BY <1>0, <1>1, <3>1, <3>4, <3>5, <3>6, <3>7, ScriptStep DEF Progress
  <2> QED BY <2>2, <2>8, <2>9 DEF Fault
<1> QED BY <1>6, <1>7

LEMMA FollowNextKeeps ==
    ASSUME SeedInv, Grew, NEW b \in Browsers, FollowNext(b) PROVE SeedInv'
<1>0. /\ SeedTypes /\ AccountsInv /\ ScriptType(b) /\ Progress(b) /\ DOMAIN seed = Browsers
      /\ movies \in Seq(Range(DemoMovies)) /\ Len(users) \in Nat /\ Len(movies) \in Nat
      /\ faults \in Nat /\ faults <= faults
  BY ScriptFacts
<1>1. /\ At(b, "follow") /\ UNCHANGED accounts /\ users' = users /\ movies' = movies
      /\ reviews' = reviews /\ seed[b].i \in Nat \ {0} /\ follows \subseteq follows'
  BY <1>0 DEF FollowNext, accounts, ScriptType, Grew
<1>2. seed[b].at \in HasUsers /\ seed[b].at \in HasCreated \ {"done"} /\ ~seed[b].only
  BY <1>0, <1>1 DEF HasUsers, HasCreated, At, ScriptType
<1>3. ASSUME NEW k \in DOMAIN Pairs, k \notin MissingFollows(b), seed[b].i <= k PROVE Followed(b, k)
  <2>1. \A S : Pairs \in Seq(S) => Len(Pairs) \in Nat /\ DOMAIN Pairs = 1..Len(Pairs)
    OBVIOUS
  <2>2. k \in seed[b].i..Len(Pairs)
    BY <1>1, <1>3, <2>1, PairsAreTyped
  <2>3. ~(Range(Pairs[k]) \subseteq Listed(b)) \/ ~CanLogin(Pairs[k][1])
    BY <1>3, <2>2 DEF MissingFollows, Todo
  <2>4. Pairs[k][1] \in Range(Pairs[k])
    BY PairsAreTyped
  <2> QED BY <1>2, <2>3, <2>4, KnownCanAct DEF Followed
<1>4. ~seed[b].hurt => \A k \in DOMAIN Pairs : k < seed[b].i => Followed(b, k)
  BY <1>0, <1>1 DEF Progress, FollowProgress
<1>5. ~seed[b].hurt => \A k \in 1..MaxReviews(b) : Reviewed(b, k)
  <2>1. ReviewProgress(b) /\ seed[b].at \in {"follow", "done"}
    BY <1>0, <1>1 DEF Progress, At
  <2> QED BY <1>2, <2>1 DEF ReviewProgress
<1>6. ASSUME seed'[b].users = seed[b].users, seed'[b].movies = seed[b].movies
      PROVE  /\ \A k : Reviewed(b, k) => Reviewed(b, k)'
             /\ \A k : Followed(b, k) => Followed(b, k)'
             /\ MaxReviews(b)' = MaxReviews(b)
  <2>1. /\ Known(b)' = Known(b) /\ MaxReviews(b)' = MaxReviews(b)
        /\ \A j : Key(b, j)' = Key(b, j)
    BY <1>0, <1>6, ReadsStay
  <2>2. AllReviews' = AllReviews
    BY <1>1 DEF AllReviews
  <2>3. \A k : Reviewed(b, k) => Reviewed(b, k)'
    BY <2>1, <2>2 DEF Reviewed
  <2>4. \A k : Followed(b, k) => Followed(b, k)'
    BY <1>1, <2>1 DEF Followed, Pairs
  <2> QED BY <2>1, <2>3, <2>4
<1>7. CASE MissingFollows(b) = {}
  <2>1. faults' = faults
    BY <1>7 DEF FollowNext
  <2>2. Becomes(b, [seed[b] EXCEPT !.at = "done", !.i = 1])
    BY <1>7 DEF FollowNext, Goto
  <2>3. /\ DOMAIN seed'[b] = DOMAIN seed[b]
        /\ seed'[b].at = "done" /\ seed'[b].i = 1 /\ seed'[b].users = seed[b].users
        /\ seed'[b].movies = seed[b].movies
        /\ seed'[b].only = seed[b].only /\ seed'[b].hurt = seed[b].hurt
    BY <1>0, <2>2 DEF Becomes, ScriptType
  <2>4. /\ seed'[b].at \in HasUsers /\ seed'[b].at \in Places /\ seed'[b].at \in HasCreated
        /\ seed'[b].at \notin HasCreated \ {"done"}
    BY <2>3 DEF HasUsers, HasCreated, Places
  <2>5. ScriptType(b)'
    <3>1. /\ seed'[b].i \in Nat \ {0} /\ Len(movies') \in Nat /\ faults' \in Nat /\ faults <= faults'
      BY <1>0, <1>1, <2>1, <2>3, IndicesArePositive
    <3> QED BY <1>1, <1>2, <2>3, <2>4, <3>1, TypeMoves
  <2>6. RegisterProgress(b)' /\ CreateProgress(b)'
    BY <1>2, <2>3, <2>4, LaterRegisterProgress, LaterCreateProgress
  <2>7. ~seed[b].hurt => \A k \in DOMAIN Pairs : Followed(b, k)
    <3>1. ASSUME ~seed[b].hurt, NEW k \in DOMAIN Pairs PROVE Followed(b, k)
      <4>1. k \in Nat
        BY IndicesArePositive
      <4>2. k < seed[b].i \/ seed[b].i <= k
        BY <1>1, <4>1
      <4> QED BY <1>3, <1>4, <1>7, <3>1, <4>2
    <3> QED BY <3>1
  <2>8. ReviewProgress(b)'
    BY <1>5, <1>6, <2>3 DEF ReviewProgress, At
  <2>9. FollowProgress(b)'
    BY <1>6, <2>3, <2>7 DEF FollowProgress, At, Pairs
  <2> QED BY <1>0, <1>1, <2>1, <2>2, <2>5, <2>6, <2>8, <2>9, ScriptStep DEF Progress
<1>8. CASE MissingFollows(b) # {}
  <2>1. PICK k \in Nat :
           /\ k = First(MissingFollows(b)) /\ k \in DOMAIN Pairs
           /\ \A j \in MissingFollows(b) : k <= j
    BY <1>0, <1>8, TodoIsTyped, FirstIsLeast
  <2>2. \/ follows' = follows \cup {Pairs[k]} /\ After(b, k) /\ UNCHANGED faults
        \/ follows' \in {follows, follows \cup {Pairs[k]}} /\ Swallowed(b, k)
    BY <1>8, <2>1 DEF FollowNext
  <2>3. k + 1 \in Nat \ {0} /\ \A j \in Nat : j < k + 1 => j < k \/ j = k
    BY <2>1
  <2>4. ~seed[b].hurt => \A j \in DOMAIN Pairs : j < k => Followed(b, j)
    <3>1. ASSUME ~seed[b].hurt, NEW j \in DOMAIN Pairs, j < k PROVE Followed(b, j)
      <4>1. j \in Nat /\ j \notin MissingFollows(b)
        BY <2>1, <3>1, IndicesArePositive
      <4>2. j < seed[b].i \/ seed[b].i <= j
        BY <1>1, <4>1
      <4> QED BY <1>3, <1>4, <3>1, <4>1, <4>2
    <3> QED BY <3>1
  <2>5. CASE follows' = follows \cup {Pairs[k]} /\ After(b, k) /\ UNCHANGED faults
    <3>1. Becomes(b, [seed[b] EXCEPT !.i = k + 1]) /\ faults' = faults
      BY <2>5 DEF After
    <3>2. /\ DOMAIN seed'[b] = DOMAIN seed[b]
          /\ seed'[b].at = "follow" /\ seed'[b].i = k + 1 /\ seed'[b].users = seed[b].users
          /\ seed'[b].movies = seed[b].movies
          /\ seed'[b].only = seed[b].only /\ seed'[b].hurt = seed[b].hurt
      BY <1>0, <1>1, <3>1 DEF Becomes, ScriptType, At
    <3>3. seed'[b].at \in HasUsers /\ seed'[b].at \in Places /\ seed'[b].at \in HasCreated \ {"done"}
      BY <3>2 DEF HasUsers, HasCreated, Places
    <3>4. ScriptType(b)'
      <4>1. seed'[b].i \in Nat \ {0} /\ Len(movies') \in Nat /\ faults' \in Nat /\ faults <= faults'
        BY <1>0, <1>1, <2>3, <3>1, <3>2
      <4> QED BY <1>1, <1>2, <3>2, <3>3, <4>1, TypeMoves
    <3>5. RegisterProgress(b)' /\ CreateProgress(b)'
      BY <1>2, <3>2, <3>3, LaterRegisterProgress, LaterCreateProgress
    <3>6. ReviewProgress(b)'
      BY <1>5, <1>6, <3>2 DEF ReviewProgress, At
    <3>7. Followed(b, k)'
      BY <2>5 DEF Followed, Pairs
    <3>8. ~seed[b].hurt => \A j \in DOMAIN Pairs : j < k + 1 => Followed(b, j)'
      <4>1. \A j \in DOMAIN Pairs : j < k + 1 => j < k \/ j = k
        BY <2>3, IndicesArePositive
      <4>2. \A j : Followed(b, j) => Followed(b, j)'
        BY <1>6, <3>2
      <4> QED BY <2>4, <3>7, <4>1, <4>2
    <3>9. FollowProgress(b)'
      BY <3>2, <3>8 DEF FollowProgress, At, Pairs
    <3> QED BY <1>0, <1>1, <3>1, <3>4, <3>5, <3>6, <3>9, ScriptStep DEF Progress
  <2>6. CASE Swallowed(b, k)
    <3>1. /\ Becomes(b, [seed[b] EXCEPT !.i = k + 1, !.hurt = TRUE]) /\ faults' = faults + 1
      BY <2>6 DEF Swallowed, Fault
    <3>2. /\ DOMAIN seed'[b] = DOMAIN seed[b]
          /\ seed'[b].at = "follow" /\ seed'[b].i = k + 1 /\ seed'[b].users = seed[b].users
          /\ seed'[b].movies = seed[b].movies
          /\ seed'[b].only = seed[b].only /\ seed'[b].hurt = TRUE
      BY <1>0, <1>1, <3>1 DEF Becomes, ScriptType, At
    <3>3. seed'[b].at \in HasUsers /\ seed'[b].at \in Places /\ seed'[b].at \in HasCreated \ {"done"}
      BY <3>2 DEF HasUsers, HasCreated, Places
    <3>4. faults' \in Nat /\ faults <= faults' /\ faults' > 0
      BY <1>0, <3>1
    <3>5. ScriptType(b)'
      <4>1. seed'[b].i \in Nat \ {0} /\ Len(movies') \in Nat
        BY <1>0, <1>1, <2>3, <3>2
      <4> QED BY <1>1, <1>2, <3>2, <3>3, <3>4, <4>1, TypeMoves
    <3>6. RegisterProgress(b)' /\ CreateProgress(b)'
      BY <1>2, <3>2, <3>3, LaterRegisterProgress, LaterCreateProgress
    <3>7. ReviewProgress(b)' /\ FollowProgress(b)'
      BY <3>2 DEF ReviewProgress, FollowProgress, At
    <3> QED BY <1>0, <1>1, <3>1, <3>4, <3>5, <3>6, <3>7, ScriptStep DEF Progress
  <2> QED BY <2>2, <2>5, <2>6
<1> QED BY <1>7, <1>8

----------------------------------------------------------------------------
(* The invariant.                                                          *)

LEMMA SeedInitially == Init => SeedInv
<1> SUFFICES ASSUME Init PROVE SeedInv
  OBVIOUS
<1>1. /\ users = <<Own(Viewer)>> /\ movies = <<>> /\ faults = 0
      /\ DOMAIN reg = Browsers \cup {Stranger} /\ DOMAIN seed = Browsers
      /\ \A c \in Browsers \cup {Stranger} :
            reg[c] = [step |-> "idle", name |-> Auth!None, email |-> Auth!None]
      /\ \A b \in Browsers : seed[b] = Script("idle", FALSE)
  BY DEF Init, Own, Idle
<1>2. Len(users) = 1 /\ users[1] = Own(Viewer) /\ \A k \in 1..Len(users) : k = 1
  BY <1>1
<1>3. users \in Seq([name : People, email : People])
  <2>1. Own(Viewer) \in [name : People, email : People]
    BY DEF Own, People
  <2> QED BY <1>1, <2>1
<1>4. AccountTypes
  BY <1>1, <1>3 DEF AccountTypes, Auth!Steps
<1>5. \A c \in Browsers \cup {Stranger} : reg[c].step = "idle"
  BY <1>1
<1>6. RequestsAreKnown
  BY <1>5 DEF RequestsAreKnown
<1>7. RowsAreKnown
  BY <1>2 DEF RowsAreKnown
<1>8. AccountsAreUnique
  BY <1>2 DEF AccountsAreUnique, Auth!AccountsAreUnique
<1>9. AnswersAreTrue
  BY <1>5 DEF AnswersAreTrue, Auth!AnswersAreTrue
<1>10. ASSUME NEW b \in Browsers PROVE ScriptType(b) /\ Progress(b)
  <2>1. /\ DOMAIN seed[b] = {"at", "i", "users", "movies", "keys", "only", "hurt"}
        /\ seed[b].at = "idle" /\ seed[b].i = 1 /\ seed[b].users = 0 /\ seed[b].movies = 0
        /\ seed[b].only = FALSE /\ seed[b].hurt = FALSE
    BY <1>1 DEF Script
  <2>2. "idle" \in Places /\ "idle" \notin HasCreated /\ "idle" \notin HasUsers
    BY DEF Places, HasCreated, HasUsers
  <2>3. 0 \in 0..Len(users) /\ 0 \in 0..Len(movies)
    BY <1>1, <1>2
  <2>4. ScriptType(b)
    BY <2>1, <2>2, <2>3, IndicesArePositive DEF ScriptType
  <2>5. RegisterProgress(b) /\ CreateProgress(b)
    BY <2>1, <2>2 DEF RegisterProgress, CreateProgress, At
  <2>6. ReviewProgress(b) /\ FollowProgress(b)
    BY <2>1 DEF ReviewProgress, FollowProgress, At
  <2> QED BY <2>4, <2>5, <2>6 DEF Progress
<1>11. movies \in Seq(Range(DemoMovies)) /\ faults \in Nat
  BY <1>1
<1> QED BY <1>1, <1>4, <1>6, <1>7, <1>8, <1>9, <1>10, <1>11 DEF SeedInv, SeedTypes, AccountsInv

\* A registration that is handled, or a stranger's, moves no script.
LEMMA AccountsMove ==
    ASSUME SeedInv, Grew, AccountsInv', UNCHANGED <<stores, seed, bounds>>,
           \A a \in Browsers :
              reg[a].step # "idle" => reg'[a].step # "idle" /\ Auth!Row(a)' = Auth!Row(a)
    PROVE  SeedInv'
<1>1. seed' = seed /\ movies' = movies /\ faults' = faults
  BY DEF stores, bounds
<1>2. ASSUME NEW b \in Browsers PROVE ScriptType(b)' /\ Progress(b)'
  <2>1. SeedTypes /\ ScriptType(b) /\ Progress(b) /\ Len(users) \in Nat
    BY ScriptFacts
  <2>2. PICK u \in Int : Len(users') = u /\ Len(users) <= u
    BY DEF AccountsInv, AccountTypes, Grew
  <2>3. ScriptType(b)'
    BY <1>1, <2>1, <2>2 DEF ScriptType
  <2>4. At(b, "registering") => reg'[b].step # "idle" /\ Auth!Row(b)' = Auth!Row(b)
    BY <2>1 DEF Progress, RegisterProgress
  <2> QED BY <1>1, <2>1, <2>3, <2>4, ProgressStays
<1> QED BY <1>1, <1>2 DEF SeedInv, SeedTypes, AccountsInv

LEMMA SeedNext == ASSUME SeedInv, [Next]_vars PROVE SeedInv'
<1>1. Grew /\ SeedTypes /\ AccountsInv
  BY EverythingGrows DEF SeedInv
<1>2. CASE Handle
  <2>1. PICK c \in Browsers \cup {Stranger} : Auth!Handle(c)
    BY <1>2 DEF Handle
  <2>2. UNCHANGED <<stores, seed, bounds>>
    BY <1>2 DEF Handle
  <2> QED BY <1>1, <2>1, <2>2, HandleKeepsAccounts, AccountsMove
<1>3. CASE Interfere
  <2>1. PICK r \in StrangeRows : Auth!Register(Stranger, r.name, r.email)
    BY <1>3 DEF Interfere
  <2>2. [name |-> r.name, email |-> r.email] \in StrangeRows
    <3>1. PICK n \in Demo : r \in {[name |-> n, email |-> Stranger], [name |-> Stranger, email |-> n]}
      BY PeopleAssumption
    <3>2. r = [name |-> r.name, email |-> r.email]
      BY <3>1
    <3> QED BY <3>2
  <2>3. UNCHANGED <<stores, seed, bounds>> /\ reg[Stranger].step = "idle"
    BY <1>3 DEF Interfere
  <2>4. AccountsInv'
    BY <1>1, <2>1, <2>2, <2>3, RegisterKeepsAccounts
  <2>5. \A a \in Browsers : reg'[a] = reg[a]
    BY <1>1, <2>1, PeopleAssumption DEF Auth!Register, AccountsInv, AccountTypes
  <2> QED BY <1>1, <2>3, <2>4, <2>5, AccountsMove DEF Auth!Row
<1>4. CASE UNCHANGED vars
  <2>1. AccountsInv'
    BY <1>1, <1>4 DEF vars, accounts, AccountsInv, AccountTypes, RequestsAreKnown, RowsAreKnown,
         Auth!Row, AccountsAreUnique, AnswersAreTrue, Auth!AccountsAreUnique, Auth!AnswersAreTrue,
         Auth!HasEmail, Auth!HasName
  <2> QED BY <1>1, <1>4, <2>1, AccountsMove DEF vars, accounts, Auth!Row
<1>5. ASSUME NEW b \in Browsers, Stop(b) \/ \E only \in BOOLEAN : Click(b, only) PROVE SeedInv'
  BY <1>1, <1>5, ClickKeeps
<1>6. ASSUME NEW b \in Browsers, Step(b) PROVE SeedInv'
  BY <1>1, <1>6, GetUsersKeeps, RegisterNextKeeps, RegisteredKeeps, GetMoviesKeeps, CreateNextKeeps,
     GetReviewsKeeps, ReviewNextKeeps, FollowNextKeeps DEF Step
<1> QED BY <1>2, <1>3, <1>4, <1>5, <1>6 DEF Next

THEOREM SeedInvariance == Spec => []SeedInv
BY SeedInitially, SeedNext, PTL DEF Spec

\* AccountsAreUnique: however many seeds and strangers register at once.
THEOREM NamesAreUnique == Spec => []AccountsAreUnique
<1>1. SeedInv => AccountsAreUnique
  BY DEF SeedInv, AccountsInv
<1> QED BY <1>1, SeedInvariance, PTL

\* AnswersAreTrue: a conflict names a row that is there, a success has its row.
THEOREM AnswersHold == Spec => []AnswersAreTrue
<1>1. SeedInv => AnswersAreTrue
  BY DEF SeedInv, AccountsInv
<1> QED BY <1>1, SeedInvariance, PTL

\* FinishedIsComplete: whoever has an account of their own is known to a seed that has
\* finished unhurt, for it took each name or email to be taken and rows are unique.
LEMMA FinishedKnowsAll ==
    ASSUME SeedInv, NEW b \in Browsers, At(b, "done"), ~seed[b].only, ~seed[b].hurt
    PROVE  /\ \A n \in Demo : HasDemoAccount(n) => n \in Known(b)
           /\ \A n \in Demo : ~HasDemoAccount(n) =>
                 \E k \in 1..Len(users) : {users[k].name, users[k].email} = {Stranger, n}
<1>1. seed[b].users \in 0..Len(users) /\ Len(users) \in Nat
  BY ScriptFacts DEF ScriptType
<1>2. \A n \in Demo : Taken(n, seed[b].users)
  BY DEF SeedInv, Progress, RegisterProgress, At, HasUsers
<1>3. ASSUME NEW n \in Demo, HasDemoAccount(n) PROVE n \in Known(b)
  <2>1. PICK j \in 1..Len(users) : users[j] = [name |-> n, email |-> n]
    BY <1>3 DEF HasDemoAccount
  <2>2. PICK k \in 1..seed[b].users : users[k].name = n \/ users[k].email = n
    BY <1>2 DEF Taken
  <2>3. k \in 1..Len(users)
    BY <1>1, <2>2
  <2>4. users[k].name = users[j].name \/ users[k].email = users[j].email
    BY <2>1, <2>2
  <2>5. k = j
    BY <2>3, <2>4 DEF SeedInv, AccountsInv, AccountsAreUnique, Auth!AccountsAreUnique
  <2> QED BY <2>1, <2>2, <2>5 DEF Known, Own
<1>4. ASSUME NEW n \in Demo, ~HasDemoAccount(n)
      PROVE  \E k \in 1..Len(users) : {users[k].name, users[k].email} = {Stranger, n}
  <2>1. PICK k \in 1..seed[b].users : users[k].name = n \/ users[k].email = n
    BY <1>2 DEF Taken
  <2>2. k \in 1..Len(users)
    BY <1>1, <2>1
  <2>3. ASSUME NEW m \in Demo \cup {Viewer}, users[k] = Own(m) PROVE FALSE
    <3>1. m = n
      BY <2>1, <2>3 DEF Own
    <3> QED BY <1>4, <2>2, <2>3, <3>1 DEF HasDemoAccount, Own
  <2>4. reg[Stranger].step = "ok" /\ users[k] = Auth!Row(Stranger)
    BY <2>2, <2>3 DEF SeedInv, AccountsInv, RowsAreKnown
  <2>5. PICK m \in Demo :
           users[k] \in {[name |-> m, email |-> Stranger], [name |-> Stranger, email |-> m]}
    BY <2>4, PeopleAssumption DEF SeedInv, AccountsInv, RequestsAreKnown
  <2>6. {users[k].name, users[k].email} = {Stranger, m}
    BY <2>5
  <2>7. n = m
    BY <2>1, <2>5, PeopleAssumption
  <2> QED BY <2>2, <2>6, <2>7
<1> QED BY <1>3, <1>4

THEOREM SeedsAreComplete == Spec => []FinishedIsComplete
<1>1. ASSUME SeedInv PROVE FinishedIsComplete
  <2> SUFFICES ASSUME NEW b \in Browsers, At(b, "done"), ~seed[b].only, ~seed[b].hurt
               PROVE  Complete(b)
    BY DEF FinishedIsComplete
  <2> DEFINE there == {n \in Demo : HasDemoAccount(n)} \cup {Viewer}
  <2>1. there \subseteq Known(b)
    BY <1>1, FinishedKnowsAll DEF Known
  <2>2. \A n \in Demo \ there :
           \E k \in 1..Len(users) : {users[k].name, users[k].email} = {Stranger, n}
    BY <1>1, FinishedKnowsAll
  <2>3. Range(DemoMovies) \subseteq Range(movies)
    BY <1>1 DEF SeedInv, Progress, CreateProgress, At, HasCreated
  <2>4. \A k \in 1..MaxReviews(b) : Key(b, k)[1] \in there => Key(b, k) \in AllReviews
    BY <1>1, <2>1 DEF SeedInv, Progress, ReviewProgress, At, Reviewed
  <2>5. \A k \in DOMAIN Pairs : Range(Pairs[k]) \subseteq there => Pairs[k] \in follows
    BY <1>1, <2>1 DEF SeedInv, Progress, FollowProgress, At, Followed
  <2> QED BY <2>2, <2>3, <2>4, <2>5 DEF Complete
<1> QED BY <1>1, SeedInvariance, PTL

----------------------------------------------------------------------------
(* AuthorsAreReal: the names that a seed picks its authors from.           *)

\* f[k] is what remains of the first k of the list, up to n, when others than demo
\* users are dropped.
Selects(f, list, n) ==
    f = [k \in 0..n |->
            IF k = 0 THEN <<>> ELSE f[k - 1] \o IF list[k] \in Demo THEN <<list[k]>> ELSE <<>>]

LEMMA SelectionExists == ASSUME NEW list, NEW n \in Nat PROVE \E f : Selects(f, list, n)
<1> DEFINE T == {m \in Nat : ~\E f : Selects(f, list, m)}
<1>1. ASSUME T # {} PROVE FALSE
  <2>1. PICK m \in T : \A j \in T : m <= j
    BY <1>1, LeastOf
  <2>2. CASE m = 0
    <3>1. Selects([k \in 0..0 |-> <<>>], list, 0)
      BY DEF Selects
    <3> QED BY <2>1, <2>2, <3>1
  <2>3. CASE m # 0
    <3>1. m - 1 \in Nat /\ m - 1 \notin T /\ m \in Nat
      BY <2>1, <2>3
    <3>2. PICK f : Selects(f, list, m - 1)
      BY <3>1
    <3> DEFINE new == IF list[m] \in Demo THEN <<list[m]>> ELSE <<>>
               g == [k \in 0..m |-> IF k = m THEN f[m - 1] \o new ELSE f[k]]
    <3>3. \A k \in 0..m : k # m => k \in 0..m - 1 /\ g[k] = f[k]
      BY <3>1
    <3>4. \A k \in 0..m : k # 0 => k - 1 \in 0..m /\ k - 1 # m /\ g[k - 1] = f[k - 1]
      BY <3>1
    <3>5. g[m] = g[m - 1] \o new
      <4>1. m \in 0..m
        BY <3>1
      <4>2. g[m] = f[m - 1] \o new
        BY <4>1
      <4>3. g[m - 1] = f[m - 1]
        BY <2>3, <3>4, <4>1
      <4> QED BY <4>2, <4>3
    <3>6. ASSUME NEW k \in 0..m
          PROVE  g[k] = IF k = 0 THEN <<>> ELSE g[k - 1] \o IF list[k] \in Demo THEN <<list[k]>> ELSE <<>>
      <4>1. CASE k = m
        BY <2>3, <3>5, <4>1
      <4>2. CASE k # m
        <5>1. f[k] = IF k = 0 THEN <<>> ELSE f[k - 1] \o IF list[k] \in Demo THEN <<list[k]>> ELSE <<>>
          BY <3>2, <3>3, <4>2 DEF Selects
        <5> QED BY <3>3, <3>4, <4>2, <5>1
      <4> QED BY <4>1, <4>2
    <3>7. g = [k \in 0..m |-> g[k]]
      OBVIOUS
    <3> HIDE DEF g
    <3>8. Selects(g, list, m)
      BY <3>6, <3>7 DEF Selects
    <3> QED BY <2>1, <3>8
  <2> QED BY <2>2, <2>3
<1> QED BY <1>1

LEMMA DemoOfSelects ==
    ASSUME NEW S, NEW list \in Seq(S)
    PROVE  \E f : Selects(f, list, Len(list)) /\ DemoOf(list) = f[Len(list)]
<1>1. \E f : Selects(f, list, Len(list))
  BY SelectionExists
<1>2. DemoOf(list) = (CHOOSE f : Selects(f, list, Len(list)))[Len(list)]
  BY DEF DemoOf, Selects
<1> QED BY <1>1, <1>2

\* DemoOf drops everybody else, and nobody of Demo.
LEMMA DemoOfFacts ==
    ASSUME NEW S, NEW list \in Seq(S)
    PROVE  /\ DemoOf(list) \in Seq(Demo)
           /\ (\E k \in 1..Len(list) : list[k] \in Demo) => DemoOf(list) # <<>>
<1>1. PICK f : Selects(f, list, Len(list)) /\ DemoOf(list) = f[Len(list)]
  BY DemoOfSelects
<1>2. \A n \in 0..Len(list) :
         f[n] = IF n = 0 THEN <<>> ELSE f[n - 1] \o IF list[n] \in Demo THEN <<list[n]>> ELSE <<>>
  BY <1>1 DEF Selects
<1> DEFINE Good(n) == f[n] \in Seq(Demo) /\ ((\E k \in 1..n : list[k] \in Demo) => f[n] # <<>>)
           T == {n \in 0..Len(list) : ~Good(n)}
<1>3. ASSUME T # {} PROVE FALSE
  <2>0. T \in SUBSET Nat
    OBVIOUS
  <2>1. PICK n \in T : \A j \in T : n <= j
    <3> HIDE DEF T
    <3> QED BY <1>3, <2>0, LeastOf
  <2>2. CASE n = 0
    <3>1. 0 \in 0..Len(list) /\ \A k : k \notin 1..0
      OBVIOUS
    <3>2. f[0] = <<>>
      BY <1>2, <3>1
    <3>3. Good(0)
      BY <3>1, <3>2
    <3> QED BY <2>1, <2>2, <3>3
  <2>3. CASE n # 0
    <3>1. n \in Nat /\ n - 1 \in 0..Len(list) /\ n - 1 \notin T
      BY <2>1, <2>3
    <3>2. Good(n - 1)
      BY <3>1
    <3> DEFINE new == IF list[n] \in Demo THEN <<list[n]>> ELSE <<>>
    <3>3. f[n] = f[n - 1] \o new
      BY <1>2, <2>1, <2>3
    <3>4. new \in Seq(Demo) /\ Len(new) = IF list[n] \in Demo THEN 1 ELSE 0
      OBVIOUS
    <3> HIDE DEF new
    <3>5. f[n] \in Seq(Demo) /\ Len(f[n]) = Len(f[n - 1]) + Len(new)
      <4>1. PICK old \in Seq(Demo) : old = f[n - 1]
        BY <3>2
      <4>2. PICK last \in Seq(Demo) : last = new
        BY <3>4
      <4>3. old \o last \in Seq(Demo) /\ Len(old \o last) = Len(old) + Len(last)
        BY JoinedSequence
      <4> QED BY <3>3, <4>1, <4>2, <4>3
    <3>6. ASSUME NEW k \in 1..n, list[k] \in Demo PROVE f[n] # <<>>
      <4>1. CASE k = n
        BY <3>2, <3>4, <3>5, <3>6, <4>1
      <4>2. CASE k # n
        <5>1. k \in 1..n - 1
          BY <3>1, <4>2
        <5>2. f[n - 1] # <<>> /\ f[n - 1] \in Seq(Demo)
          BY <3>2, <3>6, <5>1
        <5>3. Len(f[n - 1]) > 0 /\ Len(f[n - 1]) \in Nat
          BY <5>2
        <5>4. Len(new) \in Nat
          BY <3>4
        <5>5. Len(f[n]) > 0
          BY <3>5, <5>3, <5>4
        <5> QED BY <5>5
      <4> QED BY <4>1, <4>2
    <3> QED BY <2>1, <3>5, <3>6
  <2> QED BY <2>2, <2>3
<1>4. Good(Len(list))
  BY <1>3
<1> QED BY <1>1, <1>4

\* A seed plans its reviews for people in its list, and for demo users if there are any.
LEMMA AuthorsAreListed ==
    ASSUME SeedInv, NEW b \in Browsers, seed[b].users > 0
    PROVE  /\ Len(Authors(b)) \in Nat \ {0} /\ \A k \in 1..Len(Authors(b)) : Authors(b)[k] \in People
           /\ Listed(b) \cap Demo # {} => \A k \in 1..Len(Authors(b)) : Authors(b)[k] \in Demo
<1> DEFINE last == seed[b].users
           list == [k \in 1..last |-> users[k].name]
<1>1. last \in 0..Len(users) /\ Len(users) \in Nat /\ last > 0
  BY ScriptFacts DEF ScriptType
<1>2. \A k \in 1..last : k \in 1..Len(users)
  BY <1>1
<1>3. list \in Seq(People) /\ Len(list) = last
  <2>1. ASSUME NEW k \in 1..last PROVE users[k].name \in People
    <3>0. AccountTypes /\ k \in 1..Len(users)
      BY <1>2 DEF SeedInv, AccountsInv
    <3> DEFINE R == [name : People, email : People]
    <3>1. users \in Seq(R)
      BY <3>0 DEF AccountTypes
    <3> HIDE DEF R
    <3>2. users[k] \in R
      BY <3>0, <3>1
    <3> QED BY <3>2 DEF R
  <2> QED BY <1>1, <2>1
<1>4. Listed(b) \cap Demo # {} => \E k \in 1..Len(list) : list[k] \in Demo
  BY <1>3 DEF Listed
<1>5. DemoOf(list) \in Seq(Demo) /\ (Listed(b) \cap Demo # {} => DemoOf(list) # <<>>)
  <2> HIDE DEF list
  <2> QED BY <1>3, <1>4, DemoOfFacts
<1>6. Authors(b) = IF DemoOf(list) = <<>> THEN list ELSE DemoOf(list)
  BY DEF Authors
<1> HIDE DEF list
<1>7. CASE DemoOf(list) # <<>>
  <2>1. Authors(b) \in Seq(Demo) /\ Authors(b) # <<>>
    BY <1>5, <1>6, <1>7
  <2>2. \A n \in Demo : n \in People
    BY DEF People
  <2> QED BY <2>1, <2>2
<1>8. CASE DemoOf(list) = <<>>
  <2>1. Authors(b) = list /\ Listed(b) \cap Demo = {}
    BY <1>5, <1>6, <1>8
  <2> QED BY <1>1, <1>3, <2>1
<1> QED BY <1>7, <1>8

\* A seed whose calls all went well has some demo user in its list: the stranger has only
\* one row, which takes only one of two demo users' names and emails.
LEMMA SomeDemoUserListed ==
    ASSUME SeedInv, NEW b \in Browsers, seed[b].at \in HasUsers, ~seed[b].only, ~seed[b].hurt
    PROVE  Listed(b) \cap Demo # {}
<1> DEFINE last == seed[b].users
<1>1. last \in 0..Len(users) /\ Len(users) \in Nat
  BY ScriptFacts DEF ScriptType
<1>2. \A k \in 1..last : k \in 1..Len(users)
  BY <1>1
<1>4. ASSUME NEW n \in Demo, \A k \in 1..last : users[k].name \notin Demo
      PROVE  reg[Stranger].step = "ok" /\ Auth!Row(Stranger) = [name |-> Stranger, email |-> n]
  <2>0. Taken(n, last)
    BY DEF SeedInv, Progress, RegisterProgress
  <2>1. PICK k \in 1..last : users[k].name = n \/ users[k].email = n
    BY <2>0 DEF Taken
  <2>2. users[k].email = n /\ users[k].name \notin Demo
    BY <1>4, <2>1
  <2>3. ASSUME NEW m \in Demo \cup {Viewer}, users[k] = Own(m) PROVE FALSE
    <3>1. users[k].name = m /\ users[k].email = m
      BY <2>3 DEF Own
    <3> QED BY <2>2, <3>1
  <2>4. reg[Stranger].step = "ok" /\ users[k] = Auth!Row(Stranger)
    BY <1>2, <2>3 DEF SeedInv, AccountsInv, RowsAreKnown
  <2>5. PICK m \in Demo :
           users[k] \in {[name |-> m, email |-> Stranger], [name |-> Stranger, email |-> m]}
    BY <2>4, PeopleAssumption DEF SeedInv, AccountsInv, RequestsAreKnown
  <2>6. users[k] = [name |-> Stranger, email |-> m]
    BY <2>2, <2>5
  <2> QED BY <2>2, <2>4, <2>6
<1>5. \E k \in 1..last : users[k].name \in Demo
  <2>1. PICK m \in Demo, n \in Demo : m # n
    BY DemoAssumption
  <2>2. [name |-> Stranger, email |-> m] # [name |-> Stranger, email |-> n]
    BY <2>1
  <2> QED BY <1>4, <2>2
<1> QED BY <1>5 DEF Listed

\* Whom a script posts for: a demo user, if it lists one.
LEMMA PlannedNames ==
    ASSUME SeedInv, NEW b \in Browsers, seed[b].at \in HasUsers, ~seed[b].only, NEW k \in Nat \ {0}
    PROVE  /\ Key(b, k)[1] \in People
           /\ Listed(b) \cap Demo # {} => Key(b, k)[1] \in Demo
<1>0. seed[b].users > 0
  BY DEF SeedInv, Progress, RegisterProgress
<1>1. PICK n \in Nat \ {0} : n = Len(Authors(b))
  BY <1>0, AuthorsAreListed
<1>2. ((k - 1) % n) + 1 \in 1..n
  BY <1>1
<1>3. /\ Authors(b)[((k - 1) % n) + 1] \in People
      /\ Listed(b) \cap Demo # {} => Authors(b)[((k - 1) % n) + 1] \in Demo
  BY <1>0, <1>1, <1>2, AuthorsAreListed
<1> QED BY <1>1, <1>3 DEF Key

LEMMA KeysNameDemoUsers ==
    ASSUME SeedInv, NEW b \in Browsers, seed[b].at \in HasUsers, ~seed[b].only, ~seed[b].hurt,
           NEW k \in Nat \ {0}
    PROVE  Key(b, k)[1] \in Demo
BY SomeDemoUserListed, PlannedNames
\* Accounts stay, and so a review that was by somebody real remains so.
LEMMA RealStays ==
    ASSUME SeedInv, Grew, AuthorsAreReal, NEW f \in Nat, faults' = f, faults <= f,
           \A k \in AllReviews' \ AllReviews :
              IF k[1] = Viewer THEN f > 0 ELSE HasDemoAccount(k[1])
    PROVE  AuthorsAreReal'
<1>1. Len(users) \in Nat /\ faults \in Nat
  BY DEF SeedInv, SeedTypes, AccountTypes
<1>2. \A n : HasDemoAccount(n) => HasDemoAccount(n)'
  <2>1. PICK u \in Int : Len(users') = u /\ Len(users) <= u
    BY DEF Grew
  <2> QED BY <1>1, <2>1 DEF HasDemoAccount, Grew
<1>3. ASSUME NEW k \in AllReviews' PROVE IF k[1] = Viewer THEN f > 0 ELSE HasDemoAccount(k[1])
  BY <1>1 DEF AuthorsAreReal
<1> QED BY <1>2, <1>3 DEF AuthorsAreReal

\* A review that is posted in the name of whoever is logged in was planned by a seed that
\* found no demo user, which some call that went wrong had hurt.
LEMMA ReviewNextIsReal ==
    ASSUME SeedInv, Grew, AuthorsAreReal, NEW b \in Browsers, ReviewNext(b) PROVE AuthorsAreReal'
<1>0. /\ SeedTypes /\ ScriptType(b) /\ faults \in Nat /\ faults <= faults /\ faults <= faults + 1
      /\ faults + 1 \in Nat /\ faults + 1 > 0
  BY ScriptFacts DEF SeedTypes
<1>1. seed[b].at \in HasUsers /\ ~seed[b].only
  BY <1>0 DEF ReviewNext, ScriptType, HasUsers, HasCreated, At
<1>2. CASE MissingReviews(b) = {}
  <2>1. AllReviews' = AllReviews /\ faults' = faults
    BY <1>2 DEF ReviewNext, AllReviews
  <2> QED BY <1>0, <2>1, RealStays
<1>3. CASE MissingReviews(b) # {}
  <2>1. PICK k \in Nat \ {0} : k = First(MissingReviews(b)) /\ k \in MissingReviews(b)
    <3>1. MissingReviews(b) \in SUBSET Nat /\ MissingReviews(b) \in SUBSET (Nat \ {0})
      BY <1>0, TodoIsTyped
    <3> QED BY <1>3, <3>1, FirstIsLeast
  <2>2. PICK key : key = Key(b, k)
    OBVIOUS
  <2> DEFINE posted == [key EXCEPT ![1] = ActsAs(key[1])]
  <2>3. CanLogin(key[1])
    BY <2>1, <2>2 DEF MissingReviews, Todo
  <2>4. posted[1] = ActsAs(key[1])
    BY <2>2 DEF Key
  <2>5. IF posted[1] = Viewer THEN faults > 0 ELSE HasDemoAccount(posted[1])
    <3>1. CASE key[1] \in Demo
      BY <2>3, <2>4, <3>1, PeopleAssumption DEF ActsAs, CanLogin
    <3>2. CASE key[1] \notin Demo
      <4>1. seed[b].hurt
        BY <1>1, <2>1, <2>2, <3>2, KeysNameDemoUsers
      <4> QED BY <1>0, <2>4, <3>2, <4>1 DEF ActsAs, ScriptType
    <3> QED BY <3>1, <3>2
  <2>6. PICK n \in Nat : Post(posted, n) /\ (faults' = faults \/ faults' = faults + 1)
    BY <1>3, <2>1, <2>2, PostCases DEF Swallowed, Fault
  <2> HIDE DEF posted
  <2>7. AllReviews' \subseteq AllReviews \cup {posted}
    BY <2>6, ReviewsGrow
  <2>8. CASE faults' = faults
    BY <1>0, <2>5, <2>7, <2>8, RealStays
  <2>9. CASE faults' = faults + 1
    BY <1>0, <2>5, <2>7, <2>9, RealStays
  <2> QED BY <2>6, <2>8, <2>9
<1> QED BY <1>2, <1>3

LEMMA OthersPostNothing ==
    ASSUME SeedInv, [Next]_vars, \A b \in Browsers : ~ReviewNext(b)
    PROVE  AllReviews' = AllReviews /\ (faults' = faults \/ faults' = faults + 1)
<1> USE DEF vars, accounts, stores, bounds
<1>1. UNCHANGED <<reviews, faults>> => AllReviews' = AllReviews
  BY DEF AllReviews
<1>2. CASE Handle \/ Interfere \/ UNCHANGED vars
  BY <1>1, <1>2 DEF Handle, Interfere
<1>3. ASSUME NEW b \in Browsers, Step(b) \/ Stop(b) \/ \E only \in BOOLEAN : Click(b, only)
      PROVE  UNCHANGED reviews /\ (faults' = faults \/ faults' = faults + 1)
  <2>1. CASE Stop(b) \/ \E only \in BOOLEAN : Click(b, only)
    BY <2>1 DEF Stop, Click
  <2>2. CASE GetUsers(b, "users", "register") \/ GetUsers(b, "users again", "movies")
    BY <2>2 DEF GetUsers, Raised, Fault
  <2>3. CASE RegisterNext(b) \/ Registered(b)
    BY <2>3 DEF RegisterNext, Registered, Swallowed, Fault
  <2>4. CASE GetMovies(b, "movies", "create") \/ GetMovies(b, "movies again", "movies read")
    BY <2>4 DEF GetMovies, Raised, Fault
  <2>5. CASE CreateNext(b)
    BY <2>5 DEF CreateNext, Raised, Fault
  <2>6. CASE GetReviews(b)
    BY <2>6 DEF GetReviews, Fault
  <2>7. CASE FollowNext(b)
    BY <2>7 DEF FollowNext, Swallowed, Fault
  <2> QED BY <1>3, <2>1, <2>2, <2>3, <2>4, <2>5, <2>6, <2>7 DEF Step
<1>4. ASSUME UNCHANGED reviews PROVE AllReviews' = AllReviews
  BY <1>4 DEF AllReviews
<1> QED BY <1>2, <1>3, <1>4 DEF Next

\* AuthorsAreReal: a review of a seed is by the demo user it names, unless a call failed.
THEOREM AuthorsExist == Spec => []AuthorsAreReal
<1>1. Init => AuthorsAreReal
  <2>1. ASSUME Init PROVE AllReviews = {}
    BY <2>1 DEF Init, AllReviews, BagToSet, EmptyBag, SetToBag
  <2> QED BY <2>1 DEF AuthorsAreReal
<1>2. ASSUME SeedInv, AuthorsAreReal, [Next]_vars PROVE AuthorsAreReal'
  <2>1. Grew /\ faults \in Nat /\ faults + 1 \in Nat /\ faults <= faults /\ faults <= faults + 1
    BY <1>2, EverythingGrows DEF SeedInv, SeedTypes
  <2>2. CASE \E b \in Browsers : ReviewNext(b)
    BY <1>2, <2>1, <2>2, ReviewNextIsReal
  <2>3. CASE \A b \in Browsers : ~ReviewNext(b)
    <3>1. AllReviews' = AllReviews /\ (faults' = faults \/ faults' = faults + 1)
      BY <1>2, <2>3, OthersPostNothing
    <3> QED BY <1>2, <2>1, <3>1, RealStays
  <2> QED BY <2>2, <2>3
<1> QED BY <1>1, <1>2, SeedInvariance, PTL DEF Spec

----------------------------------------------------------------------------
(* CopiesNeedRivals: what may still be created without anything else going wrong is    *)
(* counted with the copies that are there.                                             *)

\* The scripts that run; those of them that a call in vain has hurt.
Busy == {b \in Browsers : Running(b)}
Hurt == {b \in Busy : seed[b].hurt}

\* Who may yet create this title: it is missing in what they read, and to come in the list.
Creators(t) ==
    {b \in Busy : /\ At(b, "create") /\ \A j \in 1..seed[b].movies : movies[j] # t
                  /\ \E k \in DOMAIN DemoMovies : DemoMovies[k] = t /\ ~(k < seed[b].i)}

\* Who may yet post this review under the name it is planned for.  If that is the viewer's,
\* there is a second one: a seed that found no demo user has the stranger's name in its list,
\* and acts as the viewer.  It was hurt, so the call that went wrong stands for that one.
Posters(x) == {b \in Busy : At(b, "review") /\ x \notin seed[b].keys}
Strange(x) == <<Stranger, x[2], x[3]>>
Stand(x) ==
    {b \in Hurt : IF At(b, "review") THEN Listed(b) \cap Demo = {} /\ Strange(x) \notin seed[b].keys
                                     ELSE ~At(b, "follow")}

Rivals ==
    /\ overlaps \in Nat /\ Surplus \in Nat /\ IsFiniteSet(Busy)
    /\ Cardinality(Busy) <= 1 + overlaps /\ Cardinality(Hurt) <= Surplus
TitlesCount ==
    \A t \in Range(DemoMovies) : Copies(t) + Cardinality(Creators(t)) <= 1 + overlaps + Surplus
ReviewsCount ==
    \A x \in AllReviews :
        /\ reviews[x] \in Nat
        /\ reviews[x] + Cardinality(Posters(x)) + Cardinality(Stand(x)) <= 1 + overlaps + Surplus
CopiesInv == Rivals /\ TitlesCount /\ ReviewsCount

\* A call that goes wrong allows for as many copies as there are instances.
LEMMA SurplusFollows ==
    ASSUME SeedInv, faults' = faults \/ faults' = faults + 1
    PROVE  /\ Surplus \in Nat
           /\ \E extra \in Nat :
                 /\ Surplus' = Surplus + extra
                 /\ faults' = faults => extra = 0
                 /\ faults' = faults + 1 => extra = Instances /\ extra # 0
<1>1. faults \in Nat /\ Instances \in Nat \ {0}
  BY DemoAssumption DEF SeedInv, SeedTypes
<1>2. Instances * faults \in Nat
  BY <1>1
<1>3. CASE faults' = faults
  BY <1>1, <1>2, <1>3 DEF Surplus
<1>4. CASE faults' = faults + 1
  <2>1. Instances * (faults + 1) = Instances * faults + Instances
    BY <1>1
  <2>2. faults' # faults
    BY <1>1, <1>4
  <2> QED BY <1>1, <1>2, <1>4, <2>1, <2>2 DEF Surplus
<1> QED BY <1>2, <1>3, <1>4 DEF Surplus

Has(s, b) == IF b \in s THEN 1 ELSE 0

LEMMA OneMore ==
    ASSUME NEW S, NEW T, NEW b, IsFiniteSet(S), T \subseteq S \cup {b}
    PROVE  /\ IsFiniteSet(T) /\ Cardinality(S) \in Nat /\ Cardinality(T) \in Nat
           /\ (\A a : a # b /\ a \in T => a \in S)
                 => Cardinality(T) + Has(S, b) <= Cardinality(S) + Has(T, b)
<1>1. /\ IsFiniteSet(S \cup {b}) /\ Cardinality(S) \in Nat
      /\ Cardinality(S \cup {b}) = IF b \in S THEN Cardinality(S) ELSE Cardinality(S) + 1
  BY FS_AddElement, FS_CardinalityType
<1>2. IsFiniteSet(T) /\ Cardinality(T) \in Nat /\ Cardinality(T) <= Cardinality(S \cup {b})
  BY <1>1, FS_Subset, FS_CardinalityType
<1>3. b \notin T => T \subseteq S
  OBVIOUS
<1>4. b \notin T => Cardinality(T) <= Cardinality(S)
  BY <1>3, FS_Subset
<1>5. CASE b \in S /\ b \notin T
  <2>1. T \cup {b} \subseteq S /\ b \notin T
    BY <1>3, <1>5
  <2>2. Cardinality(T \cup {b}) = Cardinality(T) + 1 /\ Cardinality(T \cup {b}) <= Cardinality(S)
    BY <1>2, <1>5, <2>1, FS_AddElement, FS_Subset
  <2> QED BY <1>1, <1>2, <1>5, <2>2 DEF Has
<1>6. CASE b \notin S
  BY <1>1, <1>2, <1>4, <1>6 DEF Has
<1>7. CASE b \in S /\ b \in T
  BY <1>1, <1>2, <1>7 DEF Has
<1> QED BY <1>2, <1>1, <1>5, <1>6, <1>7

LEMMA CopiesTyped == ASSUME SeedTypes, NEW t PROVE Copies(t) \in Nat
<1>1. PICK s \in Seq(Range(DemoMovies)) : s = movies
  BY DEF SeedTypes
<1>2. IsFiniteSet(1..Len(s))
  BY FS_Interval
<1>3. {j \in DOMAIN s : s[j] = t} \subseteq 1..Len(s)
  OBVIOUS
<1> QED BY <1>1, <1>2, <1>3, FS_Subset, FS_CardinalityType DEF Copies

LEMMA InsertCopies ==
    ASSUME SeedTypes, NEW e \in Range(DemoMovies), NEW n \in Nat, Insert(e, n), NEW t
    PROVE  /\ Copies(t) \in Nat /\ Copies(t)' = Copies(t) + IF e = t THEN n ELSE 0
           /\ \A j \in 1..Len(movies) : movies'[j] = movies[j]
<1> DEFINE new == [j \in 1..n |-> e]
           l == Len(movies)
           old == {j \in DOMAIN movies : movies[j] = t}
           more == (l + 1)..(l + n)
<1>1. new \in Seq(Range(DemoMovies)) /\ Len(new) = n /\ \A j \in 1..n : new[j] = e
  OBVIOUS
<1>2. movies \in Seq(Range(DemoMovies)) /\ movies' = movies \o new /\ l \in Nat /\ DOMAIN movies = 1..l
  BY DEF SeedTypes, Insert
<1> HIDE DEF new
<1>3. /\ movies' \in Seq(Range(DemoMovies)) /\ Len(movies') = l + n
      /\ \A k \in 1..l : movies'[k] = movies[k]
      /\ \A k \in 1..n : movies'[l + k] = e
  <2>1. movies \o new \in Seq(Range(DemoMovies)) /\ Len(movies \o new) = l + n
    BY <1>1, <1>2, JoinedSequence
  <2>2. \A k \in 1..l : (movies \o new)[k] = movies[k]
    BY <1>1, <1>2, JoinedSequence
  <2>3. \A k \in 1..n : (movies \o new)[l + k] = new[k]
    BY <1>1, <1>2, JoinedSequence
  <2> QED BY <1>1, <1>2, <2>1, <2>2, <2>3
<1>4. DOMAIN movies' = 1..(l + n)
  BY <1>3
<1> HIDE DEF l
<1>5. \A j \in more : j - l \in 1..n /\ j = l + (j - l) /\ j \in 1..(l + n) /\ j \notin 1..l
  BY <1>2
<1>6. 1..(l + n) = 1..l \cup more
  BY <1>2
<1>7. \A j \in more : movies'[j] = e
  BY <1>3, <1>5
<1>8. {j \in DOMAIN movies' : movies'[j] = t} = old \cup IF e = t THEN more ELSE {}
  BY <1>2, <1>3, <1>4, <1>6, <1>7
<1>9. old \subseteq 1..l /\ old \cap more = {}
  BY <1>2, <1>5
<1>10. IsFiniteSet(old) /\ Cardinality(old) \in Nat
  <2>1. IsFiniteSet(1..l)
    BY <1>2, FS_Interval
  <2> QED BY <1>9, <2>1, FS_Subset, FS_CardinalityType
<1>11. IsFiniteSet(more) /\ Cardinality(more) = n
  <2>1. l + 1 \in Int /\ l + n \in Int
    BY <1>2
  <2>2. /\ IsFiniteSet(more)
        /\ Cardinality(more) = IF l + 1 > l + n THEN 0 ELSE (l + n) - (l + 1) + 1
    BY <2>1, FS_Interval
  <2>3. (IF l + 1 > l + n THEN 0 ELSE (l + n) - (l + 1) + 1) = n
    BY <1>2
  <2> QED BY <2>2, <2>3
<1> HIDE DEF old, more
<1>12. Cardinality(old \cup more) = Cardinality(old) + n
  <2>1. Cardinality(old \cup more) = Cardinality(old) + Cardinality(more) - Cardinality(old \cap more)
    BY <1>10, <1>11, FS_Union
  <2>2. Cardinality(old \cap more) = 0
    BY <1>9, FS_EmptySet
  <2> QED BY <1>10, <1>11, <2>1, <2>2
<1>13. Copies(t) = Cardinality(old) /\ Copies(t)' = Cardinality(old \cup IF e = t THEN more ELSE {})
  BY <1>8 DEF Copies, old
<1>14. Copies(t)' = Copies(t) + IF e = t THEN n ELSE 0
  <2>1. CASE e = t
    BY <1>12, <1>13, <2>1
  <2>2. CASE e # t
    BY <1>10, <1>13, <2>2
  <2> QED BY <2>1, <2>2
<1> QED BY <1>3, <1>10, <1>13, <1>14 DEF l

Held(x) == IF x \in AllReviews THEN reviews[x] ELSE 0

LEMMA PostAdds ==
    ASSUME CopiesInv, NEW key, NEW n \in Nat, Post(key, n), NEW x \in AllReviews'
    PROVE  reviews'[x] = Held(x) + IF x = key THEN n ELSE 0
<1> DEFINE new == IF n = 0 THEN {} ELSE {key}
<1>1. AllReviews = DOMAIN reviews /\ \A y \in AllReviews : reviews[y] \in Nat
  BY DEF AllReviews, BagToSet, CopiesInv, ReviewsCount
<1>2. reviews' = reviews (+) [k \in new |-> n]
  BY DEF Post
<1>3. x \in DOMAIN reviews \cup new
  BY <1>2 DEF AllReviews, BagToSet, (+)
<1>4. reviews'[x] = (IF x \in DOMAIN reviews THEN reviews[x] ELSE 0) + (IF x \in new THEN n ELSE 0)
  BY <1>2, <1>3 DEF (+)
<1>5. (IF x \in new THEN n ELSE 0) = IF x = key THEN n ELSE 0
  OBVIOUS
<1> QED BY <1>1, <1>4, <1>5 DEF Held

\* Before anybody has posted it, a review is owed once by whoever runs, and once more by the hurt.
LEMMA ReviewsOwed ==
    ASSUME SeedInv, CopiesInv, NEW x
    PROVE  /\ IsFiniteSet(Busy) /\ IsFiniteSet(Posters(x)) /\ IsFiniteSet(Stand(x)) /\ Held(x) \in Nat
           /\ Cardinality(Posters(x)) \in Nat /\ Cardinality(Stand(x)) \in Nat
           /\ Held(x) + Cardinality(Posters(x)) + Cardinality(Stand(x)) <= 1 + overlaps + Surplus
<1>1. /\ overlaps \in Nat /\ Surplus \in Nat /\ IsFiniteSet(Busy)
      /\ Cardinality(Busy) <= 1 + overlaps /\ Cardinality(Hurt) <= Surplus
  BY DEF CopiesInv, Rivals
<1>2. Hurt \subseteq Busy /\ Posters(x) \subseteq Busy /\ Stand(x) \subseteq Hurt /\ Stand(x) \subseteq Busy
  BY DEF Hurt, Posters, Stand
<1>3. IsFiniteSet(Hurt) /\ IsFiniteSet(Posters(x)) /\ IsFiniteSet(Stand(x))
  BY <1>1, <1>2, FS_Subset
<1>4. /\ Cardinality(Posters(x)) <= Cardinality(Busy) /\ Cardinality(Stand(x)) <= Cardinality(Hurt)
  BY <1>1, <1>2, <1>3, FS_Subset
<1>5. /\ Cardinality(Posters(x)) \in Nat /\ Cardinality(Stand(x)) \in Nat
      /\ Cardinality(Busy) \in Nat /\ Cardinality(Hurt) \in Nat
  BY <1>1, <1>3, FS_CardinalityType
<1>6. CASE x \in AllReviews
  BY <1>1, <1>3, <1>5, <1>6 DEF Held, CopiesInv, ReviewsCount
<1>7. CASE x \notin AllReviews
  BY <1>1, <1>3, <1>4, <1>5, <1>7 DEF Held
<1> QED BY <1>6, <1>7

LEMMA OthersStay ==
    ASSUME SeedInv, Grew, NEW a \in Browsers, seed'[a] = seed[a],
           \A j \in 1..Len(movies) : movies'[j] = movies[j]
    PROVE  /\ (a \in Busy)' <=> a \in Busy
           /\ (a \in Hurt)' <=> a \in Hurt
           /\ \A t : (a \in Creators(t))' <=> a \in Creators(t)
           /\ \A x : (a \in Posters(x))' <=> a \in Posters(x)
           /\ \A x : (a \in Stand(x))' <=> a \in Stand(x)
<1>0. SeedTypes /\ seed[a].movies \in 0..Len(movies) /\ Len(movies) \in Nat
  BY ScriptFacts DEF ScriptType
<1>1. (a \in Busy)' <=> a \in Busy
  BY DEF Busy, Running
<1>2. (a \in Hurt)' <=> a \in Hurt
  BY <1>1 DEF Hurt
<1>3. \A p : At(a, p)' <=> At(a, p)
  BY DEF At
<1>4. ASSUME NEW t PROVE (a \in Creators(t))' <=> a \in Creators(t)
  <2>1. \A j \in 1..seed[a].movies : movies'[j] = movies[j]
    BY <1>0
  <2> QED BY <1>1, <1>3, <2>1 DEF Creators
<1>5. ASSUME NEW x PROVE (a \in Posters(x))' <=> a \in Posters(x)
  BY <1>1, <1>3 DEF Posters
<1>6. ASSUME NEW x PROVE (a \in Stand(x))' <=> a \in Stand(x)
  <2>1. Listed(a)' = Listed(a)
    BY <1>0, ReadsStay
  <2> QED BY <1>2, <1>3, <2>1 DEF Stand, Strange
<1> QED BY <1>1, <1>2, <1>4, <1>5, <1>6

\* A step of one script that runs: what it adds to the count, a call that goes wrong pays for.
LEMMA CopiesStep ==
    ASSUME SeedInv, SeedInv', Grew, CopiesInv, NEW b \in Browsers, b \in Busy,
           \A a \in Browsers : a # b => seed'[a] = seed[a],
           \A j \in 1..Len(movies) : movies'[j] = movies[j],
           overlaps' = overlaps, NEW extra \in Nat, Surplus' = Surplus + extra,
           (b \in Hurt)' => b \in Hurt \/ extra # 0,
           \A t \in Range(DemoMovies) :
              /\ Copies(t) \in Nat /\ Copies(t)' \in Nat
              /\ \/ Copies(t)' = 0
                 \/ Copies(t)' + Has(Creators(t)', b) <= Copies(t) + Has(Creators(t), b) + extra,
           \A x \in AllReviews' :
              /\ reviews'[x] \in Nat
              /\ reviews'[x] + Has(Posters(x)', b) + Has(Stand(x)', b)
                    <= Held(x) + Has(Posters(x), b) + Has(Stand(x), b) + extra
    PROVE  CopiesInv'
<1>1. /\ overlaps \in Nat /\ Surplus \in Nat /\ IsFiniteSet(Busy)
      /\ Cardinality(Busy) <= 1 + overlaps /\ Cardinality(Hurt) <= Surplus
  BY DEF CopiesInv, Rivals
<1>2. PICK f \in Nat, o \in Nat : f = Surplus' /\ f = Surplus + extra /\ o = overlaps /\ o = overlaps'
  BY <1>1
<1>3. \A a \in Browsers : a # b =>
         /\ (a \in Busy)' <=> a \in Busy
         /\ (a \in Hurt)' <=> a \in Hurt
         /\ \A t : (a \in Creators(t))' <=> a \in Creators(t)
         /\ \A x : (a \in Posters(x))' <=> a \in Posters(x)
         /\ \A x : (a \in Stand(x))' <=> a \in Stand(x)
  BY OthersStay
<1>4. Busy' \subseteq Busy
  BY <1>3 DEF Busy
<1>5. IsFiniteSet(Busy') /\ Cardinality(Busy') <= 1 + o /\ Cardinality(Busy') \in Nat
  <2>1. IsFiniteSet(Busy') /\ Cardinality(Busy') <= Cardinality(Busy)
    BY <1>1, <1>4, FS_Subset
  <2>2. Cardinality(Busy') \in Nat /\ Cardinality(Busy) \in Nat
    BY <1>1, <2>1, FS_CardinalityType
  <2> QED BY <1>1, <1>2, <2>1, <2>2
<1>6. Cardinality(Hurt') <= f
  <2>1. Hurt \subseteq Busy
    BY DEF Hurt
  <2>2. Hurt' \subseteq Hurt \cup {b} /\ \A a : a # b /\ a \in Hurt' => a \in Hurt
    BY <1>3 DEF Hurt, Busy
  <2>3. PICK h \in Nat : h = Cardinality(Hurt)
    BY <1>1, <2>1, FS_Subset, FS_CardinalityType
  <2>4. IsFiniteSet(Hurt)
    BY <1>1, <2>1, FS_Subset
  <2>5. /\ Cardinality(Hurt') \in Nat
        /\ Cardinality(Hurt') + Has(Hurt, b) <= h + Has(Hurt', b)
    BY <2>2, <2>3, <2>4, OneMore
  <2>6. Has(Hurt', b) <= Has(Hurt, b) + extra /\ Has(Hurt, b) \in {0, 1} /\ Has(Hurt', b) \in {0, 1}
    BY DEF Has
  <2> QED BY <1>1, <1>2, <2>3, <2>5, <2>6
<1>7. Rivals'
  BY <1>2, <1>5, <1>6 DEF Rivals
<1>8. ASSUME NEW t \in Range(DemoMovies)
      PROVE  (Copies(t) + Cardinality(Creators(t)) <= 1 + overlaps + Surplus)'
  <2>1. Creators(t) \subseteq Busy /\ Creators(t)' \subseteq Busy'
    BY DEF Creators
  <2>2. IsFiniteSet(Creators(t)) /\ IsFiniteSet(Creators(t)')
    BY <1>1, <1>5, <2>1, FS_Subset
  <2>3. PICK c \in Nat, d \in Nat, m \in Nat, n \in Nat :
           /\ c = Cardinality(Creators(t)) /\ d = Cardinality(Creators(t)')
           /\ m = Copies(t) /\ n = Copies(t)'
    BY <2>2, FS_CardinalityType
  <2>4. d <= 1 + o
    <3>1. Cardinality(Creators(t)') <= Cardinality(Busy')
      BY <1>5, <2>1, FS_Subset
    <3> QED BY <1>5, <2>3, <3>1
  <2>5. d + Has(Creators(t), b) <= c + Has(Creators(t)', b)
    <3>1. Creators(t)' \subseteq Creators(t) \cup {b} /\ \A a : a # b /\ a \in Creators(t)' => a \in Creators(t)
      BY <1>3 DEF Creators, Busy
    <3> QED BY <2>2, <2>3, <3>1, OneMore
  <2>6. Has(Creators(t), b) \in {0, 1} /\ Has(Creators(t)', b) \in {0, 1}
    BY DEF Has
  <2>7. m + c <= 1 + o + Surplus
    BY <1>2, <2>3 DEF CopiesInv, TitlesCount
  <2>8. n = 0 \/ n + Has(Creators(t)', b) <= m + Has(Creators(t), b) + extra
    BY <2>3
  <2>9. n + d <= 1 + o + f
    BY <1>1, <1>2, <2>4, <2>5, <2>6, <2>7, <2>8
  <2> QED BY <1>2, <2>3, <2>9
<1>9. ASSUME NEW x \in AllReviews'
      PROVE  /\ reviews'[x] \in Nat
             /\ (reviews[x] + Cardinality(Posters(x)) + Cardinality(Stand(x)) <= 1 + overlaps + Surplus)'
  <2>1. PICK h \in Nat, p \in Nat, s \in Nat, n \in Nat :
           /\ h = Held(x) /\ p = Cardinality(Posters(x)) /\ s = Cardinality(Stand(x)) /\ n = reviews'[x]
           /\ h + p + s <= 1 + o + Surplus
    BY <1>2, ReviewsOwed
  <2>2. IsFiniteSet(Posters(x)) /\ IsFiniteSet(Stand(x))
    BY ReviewsOwed
  <2>3. /\ Posters(x)' \subseteq Posters(x) \cup {b} /\ \A a : a # b /\ a \in Posters(x)' => a \in Posters(x)
        /\ Stand(x)' \subseteq Stand(x) \cup {b} /\ \A a : a # b /\ a \in Stand(x)' => a \in Stand(x)
    BY <1>3 DEF Posters, Stand, Hurt, Busy
  <2>4. PICK q \in Nat, r \in Nat : q = Cardinality(Posters(x)') /\ r = Cardinality(Stand(x)')
    BY <2>2, <2>3, OneMore
  <2>5. /\ q + Has(Posters(x), b) <= p + Has(Posters(x)', b)
        /\ r + Has(Stand(x), b) <= s + Has(Stand(x)', b)
    BY <2>1, <2>2, <2>3, <2>4, OneMore
  <2>6. /\ Has(Posters(x), b) \in {0, 1} /\ Has(Posters(x)', b) \in {0, 1}
        /\ Has(Stand(x), b) \in {0, 1} /\ Has(Stand(x)', b) \in {0, 1}
    BY DEF Has
  <2>7. n + Has(Posters(x)', b) + Has(Stand(x)', b) <= h + Has(Posters(x), b) + Has(Stand(x), b) + extra
    BY <2>1
  <2>8. n + q + r <= 1 + o + f
    <3>1. PICK p0 \in Nat, p1 \in Nat, s0 \in Nat, s1 \in Nat :
             /\ p0 = Has(Posters(x), b) /\ p1 = Has(Posters(x)', b)
             /\ s0 = Has(Stand(x), b) /\ s1 = Has(Stand(x)', b)
      BY <2>6
    <3>2. q + p0 <= p + p1 /\ r + s0 <= s + s1 /\ n + p1 + s1 <= h + p0 + s0 + extra
      BY <2>5, <2>7, <3>1
    <3>3. f = Surplus + extra /\ h + p + s <= 1 + o + Surplus /\ Surplus \in Nat
      BY <1>1, <1>2, <2>1
    <3> HIDE <2>1, <2>4, <3>1
    <3> QED BY <3>2, <3>3
  <2> QED BY <1>2, <2>1, <2>4, <2>8
<1> QED BY <1>7, <1>8, <1>9 DEF CopiesInv, TitlesCount, ReviewsCount

\* A step that creates and reads nothing that counts.
LEMMA QuietStep ==
    ASSUME SeedInv, SeedInv', Grew, CopiesInv, NEW b \in Browsers, Running(b),
           \A a \in Browsers : a # b => seed'[a] = seed[a],
           movies' = movies, reviews' = reviews, overlaps' = overlaps,
           faults' = faults \/ faults' = faults + 1,
           seed'[b].hurt => seed[b].hurt \/ faults' = faults + 1,
           seed'[b].at \notin {"create", "review"},
           seed[b].at \in {"review", "follow"} => seed'[b].at \in {"follow", "done", "idle"}
    PROVE  CopiesInv'
<1>1. faults \in Nat /\ SeedTypes /\ b \in Busy /\ overlaps' = overlaps
  BY DEF SeedInv, SeedTypes, Busy
<1>2. PICK extra \in Nat : Surplus' = Surplus + extra /\ (faults' = faults + 1 => extra # 0)
  BY SurplusFollows
<1>3. faults' = faults + 1 => extra # 0
  BY <1>2
<1>4. (b \in Hurt)' => b \in Hurt \/ extra # 0
  BY <1>1, <1>3 DEF Hurt
<1>5. /\ \A t : b \notin Creators(t)'
      /\ \A x : b \notin Posters(x)'
      /\ \A x : b \in Stand(x)' => b \in Stand(x) \/ extra # 0
  <2>1. ASSUME NEW t PROVE b \notin Creators(t)'
    BY DEF Creators, At
  <2>2. ASSUME NEW x PROVE b \notin Posters(x)'
    BY DEF Posters, At
  <2>3. ASSUME NEW x, b \in Stand(x)', extra = 0 PROVE b \in Stand(x)
    <3>1. (b \in Hurt)' /\ seed'[b].at \notin {"follow", "done", "idle"}
      BY <2>3 DEF Stand, At, Hurt, Busy, Running
    <3>2. b \in Hurt /\ seed[b].at \notin {"review", "follow"}
      BY <1>4, <2>3, <3>1
    <3> QED BY <3>2 DEF Stand, At
  <2> QED BY <2>1, <2>2, <2>3
<1>6. ASSUME NEW t \in Range(DemoMovies)
      PROVE  /\ Copies(t) \in Nat /\ Copies(t)' = Copies(t)
             /\ Copies(t)' + Has(Creators(t)', b) <= Copies(t) + Has(Creators(t), b) + extra
  <2>1. Copies(t)' = Copies(t)
    BY DEF Copies
  <2>2. PICK n \in Nat : n = Copies(t)
    BY <1>1, CopiesTyped
  <2>3. Has(Creators(t)', b) = 0 /\ Has(Creators(t), b) \in {0, 1}
    BY <1>5 DEF Has
  <2> QED BY <2>1, <2>2, <2>3
<1>7. ASSUME NEW x \in AllReviews'
      PROVE  /\ reviews'[x] \in Nat
             /\ reviews'[x] + Has(Posters(x)', b) + Has(Stand(x)', b)
                   <= Held(x) + Has(Posters(x), b) + Has(Stand(x), b) + extra
  <2>1. x \in AllReviews /\ reviews' = reviews
    BY DEF AllReviews
  <2>2. PICK n \in Nat : n = Held(x) /\ n = reviews'[x]
    BY <2>1, ReviewsOwed DEF Held
  <2>3. /\ Has(Posters(x)', b) = 0 /\ Has(Stand(x)', b) <= Has(Stand(x), b) + extra
        /\ Has(Posters(x), b) \in {0, 1} /\ Has(Stand(x)', b) \in {0, 1} /\ Has(Stand(x), b) \in {0, 1}
    BY <1>5 DEF Has
  <2> QED BY <2>2, <2>3
<1>8. \A j \in 1..Len(movies) : movies'[j] = movies[j]
  OBVIOUS
<1> QED BY <1>1, <1>2, <1>4, <1>6, <1>7, <1>8, CopiesStep

\* Others than the scripts move nothing that counts.
LEMMA ScriptsUnmoved ==
    ASSUME SeedInv, SeedInv', Grew, CopiesInv, UNCHANGED <<movies, reviews, seed, overlaps, faults>>
    PROVE  CopiesInv'
<1>1. \A j \in 1..Len(movies) : movies'[j] = movies[j]
  OBVIOUS
<1>2. \A a \in Browsers :
         /\ (a \in Busy)' <=> a \in Busy
         /\ (a \in Hurt)' <=> a \in Hurt
         /\ \A t : (a \in Creators(t))' <=> a \in Creators(t)
         /\ \A x : (a \in Posters(x))' <=> a \in Posters(x)
         /\ \A x : (a \in Stand(x))' <=> a \in Stand(x)
  BY <1>1, OthersStay
<1>3. Busy' = Busy /\ Hurt' = Hurt
  BY <1>2 DEF Hurt, Busy
<1>4. \A t : Creators(t)' = Creators(t)
  BY <1>2 DEF Creators, Busy
<1>5. \A x : Posters(x)' = Posters(x)
  BY <1>2 DEF Posters, Busy
<1>6. \A x : Stand(x)' = Stand(x)
  BY <1>2 DEF Stand, Hurt, Busy
<1>7. \A t : Copies(t)' = Copies(t)
  BY DEF Copies
<1>8. reviews' = reviews /\ AllReviews' = AllReviews /\ Surplus' = Surplus
  BY DEF AllReviews, Surplus
<1>9. Rivals'
  BY <1>3, <1>8 DEF CopiesInv, Rivals
<1>10. TitlesCount'
  BY <1>4, <1>7, <1>8 DEF CopiesInv, TitlesCount
<1>11. ReviewsCount'
  BY <1>5, <1>6, <1>8 DEF CopiesInv, ReviewsCount
<1> QED BY <1>9, <1>10, <1>11 DEF CopiesInv

\* A click while others run is an overlap, and otherwise nobody else runs.
LEMMA ClickCounts ==
    ASSUME SeedInv, SeedInv', Grew, CopiesInv, NEW b \in Browsers, NEW only \in BOOLEAN, Click(b, only)
    PROVE  CopiesInv'
<1>0. faults' = faults
  BY DEF Click
<1>1. /\ ~Running(b) /\ movies' = movies /\ reviews' = reviews /\ Surplus' = Surplus
      /\ \E at \in {"movies", "users"} : Becomes(b, Script(at, only))
      /\ overlaps \in Nat /\ Surplus \in Nat /\ IsFiniteSet(Busy) /\ DOMAIN seed = Browsers
      /\ Cardinality(Busy) <= 1 + overlaps /\ Cardinality(Hurt) <= Surplus
  BY <1>0 DEF Click, Surplus, stores, CopiesInv, Rivals, SeedInv, SeedTypes
<1>2. /\ \A a \in Browsers : a # b => seed'[a] = seed[a]
      /\ seed'[b].at \in {"movies", "users"} /\ seed'[b].hurt = FALSE
  BY <1>1 DEF Becomes, Script
<1>3. \A j \in 1..Len(movies) : movies'[j] = movies[j]
  BY <1>1
<1>4. \A a \in Browsers : a # b =>
         /\ (a \in Busy)' <=> a \in Busy
         /\ (a \in Hurt)' <=> a \in Hurt
         /\ \A t : (a \in Creators(t))' <=> a \in Creators(t)
         /\ \A x : (a \in Posters(x))' <=> a \in Posters(x)
         /\ \A x : (a \in Stand(x))' <=> a \in Stand(x)
  BY <1>2, <1>3, OthersStay
<1>5. b \notin Busy /\ b \notin Hurt /\ Busy' = Busy \cup {b} /\ Hurt' = Hurt
  <2>1. b \notin Busy /\ b \notin Hurt
    BY <1>1 DEF Busy, Hurt
  <2>2. b \in Busy'
    BY <1>2 DEF Busy, Running
  <2>3. b \notin Hurt'
    BY <1>2 DEF Hurt
  <2>4. Busy' = Busy \cup {b}
    BY <1>4, <2>1, <2>2 DEF Busy
  <2>5. Hurt' = Hurt
    BY <1>4, <2>1, <2>3 DEF Hurt, Busy
  <2> QED BY <2>1, <2>4, <2>5
<1>6. \A t : Creators(t)' = Creators(t)
  <2>1. ASSUME NEW t PROVE b \notin Creators(t) /\ b \notin Creators(t)'
    BY <1>2, <1>5 DEF Creators, At
  <2> QED BY <1>4, <2>1 DEF Creators, Busy
<1>7. \A x : Posters(x)' = Posters(x)
  <2>1. ASSUME NEW x PROVE b \notin Posters(x) /\ b \notin Posters(x)'
    BY <1>2, <1>5 DEF Posters, At
  <2> QED BY <1>4, <2>1 DEF Posters, Busy
<1>8. \A x : Stand(x)' = Stand(x)
  <2>1. ASSUME NEW x PROVE b \notin Stand(x) /\ b \notin Stand(x)'
    BY <1>5 DEF Stand
  <2> QED BY <1>4, <2>1 DEF Stand, Hurt, Busy
<1>9. \A t : Copies(t)' = Copies(t)
  BY <1>1 DEF Copies
<1>10. AllReviews' = AllReviews
  BY <1>1 DEF AllReviews
<1>11. PICK c \in Nat, n \in Nat :
          /\ c = Cardinality(Busy) /\ n = overlaps' /\ overlaps <= n /\ IsFiniteSet(Busy')
          /\ Cardinality(Busy') = c + 1 /\ c + 1 <= 1 + n
  <2>1. PICK c \in Nat : c = Cardinality(Busy)
    BY <1>1, FS_CardinalityType
  <2>2. IsFiniteSet(Busy') /\ Cardinality(Busy') = c + 1
    BY <1>1, <1>5, <2>1, FS_AddElement
  <2>3. overlaps' = overlaps + IF \E a \in Browsers : Running(a) THEN 1 ELSE 0
    BY DEF Click
  <2>4. CASE \E a \in Browsers : Running(a)
    <3>1. overlaps' = overlaps + 1
      BY <2>3, <2>4
    <3>2. overlaps + 1 \in Nat /\ overlaps <= overlaps + 1 /\ c + 1 <= 1 + (overlaps + 1)
      BY <1>1, <2>1
    <3> QED BY <2>1, <2>2, <3>1, <3>2
  <2>5. CASE ~\E a \in Browsers : Running(a)
    <3>1. overlaps' = overlaps /\ Busy = {}
      BY <1>1, <2>3, <2>5 DEF Busy
    <3>2. c = 0
      BY <2>1, <3>1, FS_EmptySet
    <3>3. overlaps <= overlaps /\ c + 1 <= 1 + overlaps
      BY <1>1, <3>2
    <3> QED BY <1>1, <2>1, <2>2, <3>1, <3>3
  <2> QED BY <2>4, <2>5
<1>12. Rivals'
  BY <1>1, <1>5, <1>11 DEF Rivals
<1>13. ASSUME NEW t \in Range(DemoMovies)
       PROVE  (Copies(t) + Cardinality(Creators(t)) <= 1 + overlaps + Surplus)'
  <2>1. Copies(t) + Cardinality(Creators(t)) <= 1 + overlaps + Surplus
    BY DEF CopiesInv, TitlesCount
  <2>2. Copies(t) \in Nat
    BY CopiesTyped DEF SeedInv
  <2>3. Cardinality(Creators(t)) \in Nat
    <3>1. Creators(t) \subseteq Busy
      BY DEF Creators
    <3> QED BY <1>1, <3>1, FS_Subset, FS_CardinalityType
  <2>4. Copies(t) + Cardinality(Creators(t)) <= 1 + n + Surplus
    BY <1>1, <1>11, <2>1, <2>2, <2>3
  <2> QED BY <1>1, <1>6, <1>9, <1>11, <2>4
<1>14. ASSUME NEW x \in AllReviews'
       PROVE  /\ reviews'[x] \in Nat
              /\ (reviews[x] + Cardinality(Posters(x)) + Cardinality(Stand(x)) <= 1 + overlaps + Surplus)'
  <2>1. /\ x \in AllReviews /\ reviews[x] \in Nat
        /\ reviews[x] + Cardinality(Posters(x)) + Cardinality(Stand(x)) <= 1 + overlaps + Surplus
    BY <1>10 DEF CopiesInv, ReviewsCount
  <2>2. Cardinality(Posters(x)) \in Nat /\ Cardinality(Stand(x)) \in Nat
    BY ReviewsOwed
  <2>3. reviews[x] + Cardinality(Posters(x)) + Cardinality(Stand(x)) <= 1 + n + Surplus
    BY <1>1, <1>11, <2>1, <2>2
  <2> QED BY <1>1, <1>7, <1>8, <1>11, <2>1, <2>3
<1> QED BY <1>12, <1>13, <1>14 DEF CopiesInv, TitlesCount, ReviewsCount

LEMMA EndingIsQuiet ==
    ASSUME SeedInv, SeedInv', Grew, CopiesInv, NEW b \in Browsers, Running(b),
           movies' = movies, reviews' = reviews, overlaps' = overlaps,
           Becomes(b, Idle), faults' = faults \/ faults' = faults + 1
    PROVE  CopiesInv'
<1>0. DOMAIN seed = Browsers
  BY ScriptFacts
<1>1. seed' = [seed EXCEPT ![b] = Idle] /\ Idle.at = "idle" /\ Idle.hurt = FALSE
  BY DEF Becomes, Idle, Script
<1>2. seed'[b].at = "idle" /\ seed'[b].hurt = FALSE /\ \A a \in Browsers : a # b => seed'[a] = seed[a]
  BY <1>0, <1>1
<1> QED BY <1>2, QuietStep

\* The steps that read users, register, follow, or end the script.
LEMMA QuietSteps ==
    ASSUME SeedInv, SeedInv', Grew, CopiesInv, NEW b \in Browsers,
           \/ GetUsers(b, "users", "register") \/ RegisterNext(b) \/ Registered(b)
           \/ GetUsers(b, "users again", "movies") \/ GetMovies(b, "movies again", "movies read")
           \/ FollowNext(b) \/ Stop(b)
    PROVE  CopiesInv'
<1>0. /\ DOMAIN seed = Browsers /\ DOMAIN seed[b] = {"at", "i", "users", "movies", "keys", "only", "hurt"}
      /\ movies' = movies /\ reviews' = reviews /\ overlaps' = overlaps
  BY ScriptFacts
     DEF ScriptType, GetUsers, RegisterNext, Registered, GetMovies, FollowNext, Stop, stores, bounds
<1>1. CASE GetUsers(b, "users", "register") \/ GetUsers(b, "users again", "movies")
  <2>1. Running(b) /\ seed[b].at \notin {"review", "follow"}
    BY <1>1 DEF GetUsers, At, Running
  <2>2. CASE Raised(b)
    BY <1>0, <2>1, <2>2, EndingIsQuiet DEF Raised, Fault
  <2>3. ASSUME NEW at \in {"register", "movies"}, UNCHANGED faults,
               Becomes(b, [seed[b] EXCEPT !.at = at, !.i = 1, !.users = Len(Auth!AllUsers)])
        PROVE  CopiesInv'
    <3>1. /\ seed'[b].at = at /\ seed'[b].hurt = seed[b].hurt
          /\ \A a \in Browsers : a # b => seed'[a] = seed[a]
      BY <1>0, <2>3 DEF Becomes
    <3> QED BY <1>0, <2>1, <2>3, <3>1, QuietStep
  <2> QED BY <1>1, <2>2, <2>3 DEF GetUsers
<1>2. CASE RegisterNext(b)
  <2>1. Running(b) /\ seed[b].at = "register"
    BY <1>2 DEF RegisterNext, At, Running
  <2>2. CASE UNCHANGED faults /\ Goto(b, "users again")
    <3>1. /\ seed'[b].at = "users again" /\ seed'[b].hurt = seed[b].hurt
          /\ \A a \in Browsers : a # b => seed'[a] = seed[a]
      BY <1>0, <2>2 DEF Becomes, Goto
    <3> QED BY <1>0, <2>1, <2>2, <3>1, QuietStep
  <2>3. ASSUME NEW k, UNCHANGED faults, Becomes(b, [seed[b] EXCEPT !.at = "registering", !.i = k + 1])
        PROVE  CopiesInv'
    <3>1. /\ seed'[b].at = "registering" /\ seed'[b].hurt = seed[b].hurt
          /\ \A a \in Browsers : a # b => seed'[a] = seed[a]
      BY <1>0, <2>3 DEF Becomes
    <3> QED BY <1>0, <2>1, <2>3, <3>1, QuietStep
  <2>4. ASSUME NEW k, Swallowed(b, k) PROVE CopiesInv'
    <3>1. /\ seed'[b].at = "register" /\ faults' = faults + 1
          /\ \A a \in Browsers : a # b => seed'[a] = seed[a]
      BY <1>0, <2>1, <2>4 DEF Becomes, Swallowed, Fault
    <3> QED BY <1>0, <2>1, <3>1, QuietStep
  <2> QED BY <1>2, <2>2, <2>3, <2>4 DEF RegisterNext
<1>3. CASE Registered(b)
  <2>1. Running(b) /\ seed[b].at = "registering" /\ UNCHANGED faults
    BY <1>3 DEF Registered, At, Running, bounds
  <2>2. /\ seed'[b].at = "register" /\ seed'[b].hurt = seed[b].hurt
        /\ \A a \in Browsers : a # b => seed'[a] = seed[a]
    BY <1>0, <1>3 DEF Becomes, Registered
  <2> QED BY <1>0, <2>1, <2>2, QuietStep
<1>4. CASE GetMovies(b, "movies again", "movies read")
  <2>1. Running(b) /\ seed[b].at = "movies again"
    BY <1>4 DEF GetMovies, At, Running
  <2>2. CASE Raised(b)
    BY <1>0, <2>1, <2>2, EndingIsQuiet DEF Raised, Fault
  <2>3. CASE /\ UNCHANGED faults
             /\ Becomes(b, [seed[b] EXCEPT !.at = "movies read", !.i = 1, !.movies = Len(movies)])
    <3>1. /\ seed'[b].at = "movies read" /\ seed'[b].hurt = seed[b].hurt
          /\ \A a \in Browsers : a # b => seed'[a] = seed[a]
      BY <1>0, <2>3 DEF Becomes
    <3> QED BY <1>0, <2>1, <2>3, <3>1, QuietStep
  <2> QED BY <1>4, <2>2, <2>3 DEF GetMovies
<1>5. CASE FollowNext(b)
  <2>1. Running(b) /\ seed[b].at = "follow"
    BY <1>5 DEF FollowNext, At, Running
  <2>2. CASE UNCHANGED faults /\ Goto(b, "done")
    <3>1. /\ seed'[b].at = "done" /\ seed'[b].hurt = seed[b].hurt
          /\ \A a \in Browsers : a # b => seed'[a] = seed[a]
      BY <1>0, <2>2 DEF Becomes, Goto
    <3> QED BY <1>0, <2>1, <2>2, <3>1, QuietStep
  <2>3. ASSUME NEW k, UNCHANGED faults, After(b, k) PROVE CopiesInv'
    <3>1. /\ seed'[b].at = "follow" /\ seed'[b].hurt = seed[b].hurt
          /\ \A a \in Browsers : a # b => seed'[a] = seed[a]
      BY <1>0, <2>1, <2>3 DEF Becomes, After
    <3> QED BY <1>0, <2>1, <2>3, <3>1, QuietStep
  <2>4. ASSUME NEW k, Swallowed(b, k) PROVE CopiesInv'
    <3>1. /\ seed'[b].at = "follow" /\ faults' = faults + 1
          /\ \A a \in Browsers : a # b => seed'[a] = seed[a]
      BY <1>0, <2>1, <2>4 DEF Becomes, Swallowed, Fault
    <3> QED BY <1>0, <2>1, <3>1, QuietStep
  <2> QED BY <1>5, <2>2, <2>3, <2>4 DEF FollowNext
<1>6. CASE Stop(b)
  BY <1>0, <1>6, EndingIsQuiet DEF Stop, bounds
<1> QED BY <1>1, <1>2, <1>3, <1>4, <1>5, <1>6

\* A read finds what is there, so the script owes only what nobody has created yet.
LEMMA ReadMoviesCounts ==
    ASSUME SeedInv, SeedInv', Grew, CopiesInv, NEW b \in Browsers, GetMovies(b, "movies", "create")
    PROVE  CopiesInv'
<1>0. /\ DOMAIN seed = Browsers /\ DOMAIN seed[b] = {"at", "i", "users", "movies", "keys", "only", "hurt"}
      /\ movies' = movies /\ reviews' = reviews /\ overlaps' = overlaps
      /\ Running(b) /\ seed[b].at = "movies" /\ SeedTypes /\ faults \in Nat
  BY ScriptFacts DEF ScriptType, GetMovies, stores, At, Running
<1>1. CASE Raised(b)
  BY <1>0, <1>1, EndingIsQuiet DEF Raised, Fault
<1>2. CASE /\ UNCHANGED faults
           /\ Becomes(b, [seed[b] EXCEPT !.at = "create", !.i = 1, !.movies = Len(movies)])
  <2>1. /\ seed'[b].at = "create" /\ seed'[b].hurt = seed[b].hurt /\ seed'[b].movies = Len(movies)
        /\ \A a \in Browsers : a # b => seed'[a] = seed[a]
    BY <1>0, <1>2 DEF Becomes
  <2>2. b \in Busy /\ Surplus' = Surplus + 0 /\ 0 \in Nat
    BY <1>0, <1>2, SurplusFollows DEF Busy
  <2>3. (b \in Hurt)' => b \in Hurt \/ 0 # 0
    BY <2>1, <2>2 DEF Hurt
  <2>4. ASSUME NEW t \in Range(DemoMovies)
        PROVE  /\ Copies(t) \in Nat /\ Copies(t)' \in Nat
               /\ \/ Copies(t)' = 0
                  \/ Copies(t)' + Has(Creators(t)', b) <= Copies(t) + Has(Creators(t), b) + 0
    <3>1. PICK n \in Nat : n = Copies(t) /\ n = Copies(t)'
      BY <1>0, CopiesTyped DEF Copies
    <3>2. CASE b \in Creators(t)'
      <4>1. \A j \in 1..Len(movies) : movies[j] # t
        BY <1>0, <2>1, <3>2 DEF Creators
      <4>2. DOMAIN movies = 1..Len(movies)
        BY <1>0 DEF SeedTypes
      <4>3. {j \in DOMAIN movies : movies[j] = t} = {}
        BY <4>1, <4>2
      <4>4. n = 0
        BY <3>1, <4>3, FS_EmptySet DEF Copies
      <4> QED BY <3>1, <4>4
    <3>3. CASE b \notin Creators(t)'
      <4>1. Has(Creators(t)', b) = 0 /\ Has(Creators(t), b) \in {0, 1}
        BY <3>3 DEF Has
      <4> QED BY <3>1, <4>1
    <3> QED BY <3>2, <3>3
  <2>5. ASSUME NEW x \in AllReviews'
        PROVE  /\ reviews'[x] \in Nat
               /\ reviews'[x] + Has(Posters(x)', b) + Has(Stand(x)', b)
                     <= Held(x) + Has(Posters(x), b) + Has(Stand(x), b) + 0
    <3>1. PICK n \in Nat : n = Held(x) /\ n = reviews'[x]
      BY <1>0, ReviewsOwed DEF Held, AllReviews
    <3>2. b \notin Posters(x)' /\ (b \in Stand(x)' => b \in Stand(x))
      BY <1>0, <2>1, <2>3 DEF Posters, Stand, At
    <3>3. /\ Has(Posters(x)', b) = 0 /\ Has(Stand(x)', b) <= Has(Stand(x), b)
          /\ Has(Posters(x), b) \in {0, 1} /\ Has(Stand(x)', b) \in {0, 1} /\ Has(Stand(x), b) \in {0, 1}
      BY <3>2 DEF Has
    <3> QED BY <3>1, <3>3
  <2>6. \A j \in 1..Len(movies) : movies'[j] = movies[j]
    BY <1>0
  <2> QED BY <1>0, <2>1, <2>2, <2>3, <2>4, <2>5, <2>6, CopiesStep
<1> QED BY <1>1, <1>2 DEF GetMovies

LEMMA ReadReviewsCounts ==
    ASSUME SeedInv, SeedInv', Grew, CopiesInv, NEW b \in Browsers, GetReviews(b)
    PROVE  CopiesInv'
<1>0. /\ DOMAIN seed = Browsers /\ DOMAIN seed[b] = {"at", "i", "users", "movies", "keys", "only", "hurt"}
      /\ movies' = movies /\ overlaps' = overlaps /\ reviews' = reviews
      /\ Running(b) /\ seed[b].at = "movies read" /\ SeedTypes /\ faults \in Nat
  BY ScriptFacts DEF ScriptType, GetReviews, stores, At, Running
<1>1. PICK extra \in Nat :
         /\ Surplus' = Surplus + extra
         /\ \E keys : /\ Becomes(b, [seed[b] EXCEPT !.at = "review", !.keys = keys])
                      /\ extra = 0 => keys = AllReviews
  BY SurplusFollows DEF GetReviews, Fault
<1>2. PICK keys : /\ Becomes(b, [seed[b] EXCEPT !.at = "review", !.keys = keys])
                  /\ extra = 0 => keys = AllReviews
  BY <1>1
<1>3. /\ seed'[b].at = "review" /\ seed'[b].hurt = seed[b].hurt /\ seed'[b].keys = keys
      /\ \A a \in Browsers : a # b => seed'[a] = seed[a]
  BY <1>0, <1>2 DEF Becomes
<1>4. b \in Busy /\ ((b \in Hurt)' => b \in Hurt)
  BY <1>0, <1>3 DEF Busy, Hurt
<1>5. ASSUME NEW t \in Range(DemoMovies)
      PROVE  /\ Copies(t) \in Nat /\ Copies(t)' \in Nat
             /\ Copies(t)' + Has(Creators(t)', b) <= Copies(t) + Has(Creators(t), b) + extra
  <2>1. PICK n \in Nat : n = Copies(t) /\ n = Copies(t)'
    BY <1>0, CopiesTyped DEF Copies
  <2>2. b \notin Creators(t)'
    BY <1>3 DEF Creators, At
  <2>3. Has(Creators(t)', b) = 0 /\ Has(Creators(t), b) \in {0, 1}
    BY <2>2 DEF Has
  <2> QED BY <2>1, <2>3
<1>6. ASSUME NEW x \in AllReviews'
      PROVE  /\ reviews'[x] \in Nat
             /\ reviews'[x] + Has(Posters(x)', b) + Has(Stand(x)', b)
                   <= Held(x) + Has(Posters(x), b) + Has(Stand(x), b) + extra
  <2>1. PICK n \in Nat : n = Held(x) /\ n = reviews'[x]
    BY <1>0, ReviewsOwed DEF Held, AllReviews
  <2>2. x \in AllReviews
    BY <1>0 DEF AllReviews
  <2>3. b \in Posters(x)' => extra # 0
    BY <1>2, <1>3, <2>2 DEF Posters
  <2>4. b \in Stand(x)' => b \in Stand(x)
    BY <1>0, <1>4 DEF Stand, At
  <2>5. /\ Has(Posters(x)', b) <= extra /\ Has(Stand(x)', b) <= Has(Stand(x), b)
        /\ Has(Posters(x), b) \in {0, 1} /\ Has(Posters(x)', b) \in {0, 1}
        /\ Has(Stand(x)', b) \in {0, 1} /\ Has(Stand(x), b) \in {0, 1}
    BY <2>3, <2>4 DEF Has
  <2> QED BY <2>1, <2>5
<1>7. \A j \in 1..Len(movies) : movies'[j] = movies[j]
  BY <1>0
<1> QED BY <1>0, <1>1, <1>3, <1>4, <1>5, <1>6, <1>7, CopiesStep

\* A script that creates a movie no longer owes it.
LEMMA CreateCounts ==
    ASSUME SeedInv, SeedInv', Grew, CopiesInv, NEW b \in Browsers, CreateNext(b)
    PROVE  CopiesInv'
<1>0. /\ DOMAIN seed = Browsers /\ DOMAIN seed[b] = {"at", "i", "users", "movies", "keys", "only", "hurt"}
      /\ reviews' = reviews /\ overlaps' = overlaps
      /\ Running(b) /\ seed[b].at = "create" /\ SeedTypes /\ faults \in Nat
  BY ScriptFacts DEF ScriptType, CreateNext, At, Running
<1>1. CASE MissingTitles(b) = {}
  <2>1. PICK at \in {"done", "movies again"} :
           /\ Becomes(b, [seed[b] EXCEPT !.at = at, !.i = 1]) /\ movies' = movies /\ faults' = faults
    BY <1>1 DEF CreateNext, Goto
  <2>2. /\ seed'[b].at = at /\ seed'[b].hurt = seed[b].hurt
        /\ \A a \in Browsers : a # b => seed'[a] = seed[a]
    BY <1>0, <2>1 DEF Becomes
  <2>3. at \notin {"create", "review"}
    OBVIOUS
  <2> QED BY <1>0, <2>1, <2>2, <2>3, QuietStep
<1>2. CASE MissingTitles(b) # {}
  <2>1. PICK k \in Nat : /\ k = First(MissingTitles(b)) /\ k \in MissingTitles(b)
                         /\ k \in DOMAIN DemoMovies /\ k < k + 1
    <3>1. MissingTitles(b) \in SUBSET Nat /\ MissingTitles(b) \subseteq DOMAIN DemoMovies
      BY <1>0, TodoIsTyped
    <3>2. \A k \in Nat : k < k + 1
      OBVIOUS
    <3> QED BY <1>2, <3>1, <3>2, FirstIsLeast
  <2>2. PICK title \in Range(DemoMovies) : title = DemoMovies[k]
    BY <2>1 DEF Range
  <2>3. ~(k < seed[b].i) /\ \A j \in 1..seed[b].movies : movies[j] # title
    <3>1. seed[b].i \in Nat
      BY ScriptFacts DEF ScriptType
    <3>2. k \in seed[b].i..Len(DemoMovies) /\ \A j \in 1..seed[b].movies : movies[j] # title
      BY <2>1, <2>2 DEF MissingTitles, Todo
    <3> QED BY <2>1, <3>1, <3>2
  <2>4. b \in Busy /\ b \in Creators(title)
    BY <1>0, <2>1, <2>2, <2>3 DEF Busy, Creators, At
  <2>5. PICK n \in Nat, extra \in Nat :
           /\ Insert(title, n) /\ Surplus' = Surplus + extra /\ n <= 1 + extra
           /\ \/ Becomes(b, [seed[b] EXCEPT !.i = k + 1])
              \/ Becomes(b, Idle)
    <3>1. CASE Insert(title, 1) /\ After(b, k) /\ UNCHANGED faults
      <4>1. PICK extra \in Nat : Surplus' = Surplus + extra
        BY <3>1, SurplusFollows
      <4>2. 1 \in Nat /\ 1 <= 1 + extra
        OBVIOUS
      <4> QED BY <3>1, <4>1, <4>2 DEF After
    <3>2. CASE \E n \in Nat : n <= Instances /\ Insert(title, n) /\ faults' = faults + 1
                             /\ (Becomes(b, [seed[b] EXCEPT !.i = k + 1]) \/ Becomes(b, Idle))
      <4>1. PICK extra \in Nat : Surplus' = Surplus + extra /\ extra = Instances
        BY <3>2, SurplusFollows
      <4>2. \A n \in Nat : n <= Instances => n <= 1 + extra
        BY <4>1
      <4> QED BY <3>2, <4>1, <4>2
    <3>3. \/ Insert(title, 1) /\ After(b, k) /\ UNCHANGED faults
          \/ \E n \in Nat \ {0} : n <= Instances /\ Insert(title, n) /\ After(b, k) /\ Fault
          \/ \E n \in Nat : n <= Instances /\ Insert(title, n) /\ Raised(b)
      BY <1>2, <2>1, <2>2, CreateCases
    <3> QED BY <3>1, <3>2, <3>3 DEF After, Fault, Raised
  <2>6. /\ \A a \in Browsers : a # b => seed'[a] = seed[a]
        /\ \/ seed'[b] = [seed[b] EXCEPT !.i = k + 1]
           \/ seed'[b].at = "idle" /\ seed'[b].hurt = FALSE
    <3>1. CASE Becomes(b, [seed[b] EXCEPT !.i = k + 1])
      BY <1>0, <3>1 DEF Becomes
    <3>2. CASE Becomes(b, Idle)
      <4>1. Idle.at = "idle" /\ Idle.hurt = FALSE
        BY DEF Idle, Script
      <4> QED BY <1>0, <3>2, <4>1 DEF Becomes
    <3> QED BY <2>5, <3>1, <3>2
  <2>7. (b \in Hurt)' => b \in Hurt \/ extra # 0
    BY <1>0, <2>4, <2>6 DEF Hurt
  <2>8. \A j \in 1..Len(movies) : movies'[j] = movies[j]
    BY <1>0, <2>5, InsertCopies
  <2>9. ASSUME NEW t \in Range(DemoMovies), b \in Creators(t)'
        PROVE  b \in Creators(t) /\ t # title
    <3>1. /\ seed'[b] = [seed[b] EXCEPT !.i = k + 1]
      BY <2>6, <2>9 DEF Creators, At
    <3>2. /\ \A j \in 1..seed[b].movies : movies[j] # t
      <4>1. seed[b].movies \in 0..Len(movies) /\ Len(movies) \in Nat
        BY ScriptFacts DEF ScriptType
      <4>2. seed'[b].movies = seed[b].movies
        BY <1>0, <3>1
      <4>3. \A j \in 1..seed[b].movies : movies'[j] # t
        BY <2>9, <4>2 DEF Creators
      <4> QED BY <2>8, <4>1, <4>3
    <3>3. PICK l \in DOMAIN DemoMovies : DemoMovies[l] = t /\ ~(l < k + 1)
      BY <1>0, <2>9, <3>1 DEF Creators
    <3>4. l \in Nat /\ seed[b].i \in Nat
      BY ScriptFacts, IndicesArePositive DEF ScriptType
    <3>5. l # k /\ ~(l < seed[b].i)
      BY <2>1, <2>3, <3>3, <3>4
    <3>6. t # title
      BY <2>1, <2>2, <3>3, <3>5, DemoAssumption
    <3> QED BY <1>0, <2>4, <3>2, <3>3, <3>5, <3>6 DEF Creators, At
  <2>10. ASSUME NEW t \in Range(DemoMovies)
         PROVE  /\ Copies(t) \in Nat /\ Copies(t)' \in Nat
                /\ Copies(t)' + Has(Creators(t)', b) <= Copies(t) + Has(Creators(t), b) + extra
    <3>1. PICK c \in Nat, d \in Nat :
             c = Copies(t) /\ d = Copies(t)' /\ d = c + IF title = t THEN n ELSE 0
      <4>1. Copies(t) \in Nat /\ Copies(t)' = Copies(t) + IF title = t THEN n ELSE 0
        BY <1>0, <2>5, InsertCopies
      <4>2. PICK c \in Nat : c = Copies(t)
        BY <4>1
      <4>3. c + (IF title = t THEN n ELSE 0) \in Nat
        BY <4>2
      <4> QED BY <4>1, <4>2, <4>3
    <3>2. CASE t = title
      <4>1. Has(Creators(t)', b) = 0 /\ Has(Creators(t), b) = 1
        BY <2>4, <2>9, <3>2 DEF Has
      <4>2. d + 0 <= c + 1 + extra
        BY <2>5, <3>1, <3>2
      <4> QED BY <3>1, <4>1, <4>2
    <3>3. CASE t # title
      <4>1. PICK p \in {0, 1}, q \in {0, 1} :
               p = Has(Creators(t), b) /\ q = Has(Creators(t)', b) /\ q <= p
        BY <2>9 DEF Has
      <4>2. d + q <= c + p + extra
        BY <3>1, <3>3, <4>1
      <4> QED BY <3>1, <4>1, <4>2
    <3> QED BY <3>2, <3>3
  <2>11. ASSUME NEW x \in AllReviews'
         PROVE  /\ reviews'[x] \in Nat
                /\ reviews'[x] + Has(Posters(x)', b) + Has(Stand(x)', b)
                      <= Held(x) + Has(Posters(x), b) + Has(Stand(x), b) + extra
    <3>1. PICK m \in Nat : m = Held(x) /\ m = reviews'[x]
      BY <1>0, ReviewsOwed DEF Held, AllReviews
    <3>2. b \notin Posters(x)'
      BY <1>0, <2>6 DEF Posters, At
    <3>3. b \in Stand(x)' => b \in Stand(x) \/ extra # 0
      BY <1>0, <2>7 DEF Stand, At
    <3>4. /\ Has(Posters(x)', b) = 0 /\ Has(Stand(x)', b) <= Has(Stand(x), b) + extra
          /\ Has(Posters(x), b) \in {0, 1}
          /\ Has(Stand(x)', b) \in {0, 1} /\ Has(Stand(x), b) \in {0, 1}
      BY <3>2, <3>3 DEF Has
    <3> QED BY <3>1, <3>4
  <2>12. Surplus' = Surplus + extra
    BY <2>5
  <2> QED BY <1>0, <2>4, <2>6, <2>7, <2>8, <2>10, <2>11, <2>12, CopiesStep
<1> QED BY <1>1, <1>2

\* A script that posts a review no longer owes it: under the name it is planned for, or, if
\* it is planned for the stranger, under the viewer's.
LEMMA PostCounts ==
    ASSUME SeedInv, SeedInv', Grew, CopiesInv, NEW b \in Browsers, ReviewNext(b)
    PROVE  CopiesInv'
<1>0. /\ DOMAIN seed = Browsers /\ DOMAIN seed[b] = {"at", "i", "users", "movies", "keys", "only", "hurt"}
      /\ movies' = movies /\ overlaps' = overlaps
      /\ Running(b) /\ seed[b].at = "review" /\ SeedTypes /\ faults \in Nat
      /\ seed[b].at \in HasUsers /\ ~seed[b].only
  BY ScriptFacts DEF ScriptType, ReviewNext, At, Running, HasUsers, HasCreated
<1>1. CASE MissingReviews(b) = {}
  <2>1. /\ Becomes(b, [seed[b] EXCEPT !.at = "follow", !.i = 1, !.keys = {}])
        /\ reviews' = reviews /\ faults' = faults
    BY <1>1 DEF ReviewNext
  <2>2. /\ seed'[b].at = "follow" /\ seed'[b].hurt = seed[b].hurt
        /\ \A a \in Browsers : a # b => seed'[a] = seed[a]
    BY <1>0, <2>1 DEF Becomes
  <2> QED BY <1>0, <2>1, <2>2, QuietStep
<1>2. CASE MissingReviews(b) # {}
  <2>1. PICK k \in Nat \ {0} : k = First(MissingReviews(b)) /\ k \in MissingReviews(b)
    <3>1. MissingReviews(b) \in SUBSET Nat /\ MissingReviews(b) \in SUBSET (Nat \ {0})
      BY <1>0, TodoIsTyped
    <3> QED BY <1>2, <3>1, FirstIsLeast
  <2>2. PICK key : key = Key(b, k)
    OBVIOUS
  <2>3. PICK posted : posted = [key EXCEPT ![1] = ActsAs(key[1])]
    OBVIOUS
  <2>4. key \notin seed[b].keys
    BY <2>1, <2>2 DEF MissingReviews, Todo
  <2>5. PICK author, movie, text : key = <<author, movie, text>> /\ posted = <<ActsAs(author), movie, text>>
    BY <2>2, <2>3 DEF Key
  <2>6. b \in Busy
    BY <1>0 DEF Busy
  <2>7. PICK n \in Nat, extra \in Nat :
           /\ Post(posted, n) /\ Surplus' = Surplus + extra
           /\ \/ /\ Becomes(b, [seed[b] EXCEPT !.i = k + 1, !.keys = @ \cup {key}])
                 /\ n <= 1 + extra
              \/ /\ Becomes(b, [seed[b] EXCEPT !.i = k + 1, !.hurt = TRUE])
                 /\ n <= extra /\ extra # 0
    <3>0. PICK added : added = [seed[b] EXCEPT !.i = k + 1, !.keys = @ \cup {key}]
      OBVIOUS
    <3>1. CASE Post(posted, 1) /\ Becomes(b, added) /\ UNCHANGED faults
      <4>1. PICK extra \in Nat : Surplus' = Surplus + extra
        BY <3>1, SurplusFollows
      <4>2. 1 \in Nat /\ 1 <= 1 + extra
        OBVIOUS
      <4> QED BY <3>0, <3>1, <4>1, <4>2
    <3>2. CASE \E n \in Nat \ {0} : n <= Instances /\ Post(posted, n) /\ Becomes(b, added) /\ Fault
      <4>1. PICK extra \in Nat : Surplus' = Surplus + extra /\ extra = Instances
        BY <3>2, SurplusFollows DEF Fault
      <4>2. \A n \in Nat : n <= Instances => n <= 1 + extra
        BY <4>1
      <4> QED BY <3>0, <3>2, <4>1, <4>2
    <3>3. CASE \E n \in Nat : n <= Instances /\ Post(posted, n) /\ Swallowed(b, k)
      <4>1. PICK extra \in Nat : Surplus' = Surplus + extra /\ extra = Instances /\ extra # 0
        BY <3>3, SurplusFollows DEF Swallowed, Fault
      <4> QED BY <3>3, <4>1 DEF Swallowed
    <3> QED BY <1>2, <2>1, <2>2, <2>3, <3>0, <3>1, <3>2, <3>3, PostCases
  <2> DEFINE new == seed'[b]
  <2>8. /\ \A a \in Browsers : a # b => seed'[a] = seed[a]
        /\ new.at = "review" /\ new.users = seed[b].users /\ new.movies = seed[b].movies
        /\ \/ new.keys = seed[b].keys \cup {key} /\ new.hurt = seed[b].hurt /\ n <= 1 + extra
           \/ new.keys = seed[b].keys /\ n <= extra /\ extra # 0
    <3>1. CASE /\ Becomes(b, [seed[b] EXCEPT !.i = k + 1, !.keys = @ \cup {key}])
               /\ n <= 1 + extra
      BY <1>0, <3>1 DEF Becomes
    <3>2. CASE /\ Becomes(b, [seed[b] EXCEPT !.i = k + 1, !.hurt = TRUE])
               /\ n <= extra /\ extra # 0
      BY <1>0, <3>2 DEF Becomes
    <3> QED BY <2>7, <3>1, <3>2
  <2>9. (b \in Hurt)' => b \in Hurt \/ extra # 0
    BY <1>0, <2>6, <2>8 DEF Hurt
  <2>10. Listed(b) \cap Demo = {} => b \in Hurt
    BY <1>0, <2>6, SomeDemoUserListed DEF Hurt
  <2>11. Listed(b)' = Listed(b)
    <3>1. seed'[b].users = seed[b].users /\ seed'[b].movies = seed[b].movies
      BY <2>8
    <3> QED BY <1>0, <3>1, ReadsStay
  <2>12. \A x : /\ b \in Posters(x)' => b \in Posters(x)
                /\ b \in Stand(x)' => b \in Stand(x)
    <3>1. ASSUME NEW x, b \in Posters(x)' PROVE b \in Posters(x)
      BY <1>0, <2>6, <2>8, <3>1 DEF Posters, At
    <3>2. ASSUME NEW x, b \in Stand(x)' PROVE b \in Stand(x)
      <4>1. Listed(b) \cap Demo = {} /\ Strange(x) \notin new.keys
        BY <2>8, <2>11, <3>2 DEF Stand, At, Strange
      <4> QED BY <1>0, <2>8, <2>10, <4>1 DEF Stand, At
    <3> QED BY <3>1, <3>2
  <2>13. key \in new.keys => \/ b \in Posters(posted) /\ b \notin Posters(posted)'
                             \/ b \in Stand(posted) /\ b \notin Stand(posted)'
    <3>1. author \in People /\ (Listed(b) \cap Demo # {} => author \in Demo)
      <4>1. Key(b, k)[1] = author
        BY <2>2, <2>5
      <4>2. Key(b, k)[1] \in People /\ (Listed(b) \cap Demo # {} => Key(b, k)[1] \in Demo)
        BY <1>0, <2>1, PlannedNames
      <4> QED BY <4>1, <4>2
    <3>2. CASE author # Stranger
      <4>1. posted = key
        BY <2>5, <3>1, <3>2 DEF People, ActsAs
      <4> QED BY <1>0, <2>4, <2>6, <4>1 DEF Posters, At
    <3>3. CASE author = Stranger
      <4>1. Listed(b) \cap Demo = {}
        BY <3>1, <3>3, PeopleAssumption
      <4>2. Strange(posted) = key
        BY <2>5, <3>3 DEF Strange
      <4>3. b \in Stand(posted)
        BY <1>0, <2>4, <2>10, <4>1, <4>2 DEF Stand, At
      <4>4. key \in new.keys => b \notin Stand(posted)'
        BY <2>8, <4>2 DEF Stand, At, Strange
      <4> QED BY <4>3, <4>4
    <3> QED BY <3>2, <3>3
  <2> HIDE DEF new
  <2>14. ASSUME NEW t \in Range(DemoMovies)
         PROVE  /\ Copies(t) \in Nat /\ Copies(t)' \in Nat
                /\ Copies(t)' + Has(Creators(t)', b) <= Copies(t) + Has(Creators(t), b) + extra
    <3>1. PICK c \in Nat : c = Copies(t) /\ c = Copies(t)'
      BY <1>0, CopiesTyped DEF Copies
    <3>2. b \notin Creators(t)'
      BY <2>8 DEF Creators, At, new
    <3>3. Has(Creators(t)', b) = 0 /\ Has(Creators(t), b) \in {0, 1}
      BY <3>2 DEF Has
    <3> QED BY <3>1, <3>3
  <2>15. ASSUME NEW x \in AllReviews'
         PROVE  /\ reviews'[x] \in Nat
                /\ reviews'[x] + Has(Posters(x)', b) + Has(Stand(x)', b)
                      <= Held(x) + Has(Posters(x), b) + Has(Stand(x), b) + extra
    <3>1. PICK h \in Nat, r \in Nat :
             h = Held(x) /\ r = reviews'[x] /\ r = h + IF x = posted THEN n ELSE 0
      <4>1. reviews'[x] = Held(x) + IF x = posted THEN n ELSE 0
        BY <2>7, PostAdds
      <4>2. PICK h \in Nat : h = Held(x)
        BY ReviewsOwed
      <4>3. h + (IF x = posted THEN n ELSE 0) \in Nat
        BY <4>2
      <4> QED BY <4>1, <4>2, <4>3
    <3>2. PICK p0 \in {0, 1}, p1 \in {0, 1}, s0 \in {0, 1}, s1 \in {0, 1} :
             /\ p0 = Has(Posters(x), b) /\ p1 = Has(Posters(x)', b)
             /\ s0 = Has(Stand(x), b) /\ s1 = Has(Stand(x)', b)
             /\ p1 <= p0 /\ s1 <= s0
             /\ x = posted /\ key \in new.keys => p1 + s1 + 1 <= p0 + s0
      <4>1. \A y, z : (b \in y => b \in z) => Has(y, b) <= Has(z, b)
        BY DEF Has
      <4>2. Has(Posters(x)', b) <= Has(Posters(x), b) /\ Has(Stand(x)', b) <= Has(Stand(x), b)
        BY <2>12, <4>1
      <4>3. CASE x = posted /\ key \in new.keys
        BY <2>12, <2>13, <4>3 DEF Has
      <4>4. CASE ~(x = posted /\ key \in new.keys)
        BY <2>12, <4>4 DEF Has
      <4> QED BY <4>3, <4>4
    <3>3. CASE x = posted
      <4>1. \/ key \in new.keys /\ n <= 1 + extra
            \/ n <= extra
        BY <2>8 DEF new
      <4>2. r + p1 + s1 <= h + p0 + s0 + extra
        BY <3>1, <3>2, <3>3, <4>1
      <4> QED BY <3>1, <3>2, <4>2
    <3>4. CASE x # posted
      <4>2. r + p1 + s1 <= h + p0 + s0 + extra
        BY <3>1, <3>2, <3>4
      <4> QED BY <3>1, <3>2, <4>2
    <3> QED BY <3>3, <3>4
  <2>16. Surplus' = Surplus + extra /\ \A j \in 1..Len(movies) : movies'[j] = movies[j]
    BY <1>0, <2>7
  <2> QED BY <1>0, <2>6, <2>8, <2>9, <2>14, <2>15, <2>16, CopiesStep
<1> QED BY <1>1, <1>2

LEMMA CopiesInitially == Init => CopiesInv
<1> SUFFICES ASSUME Init PROVE CopiesInv
  OBVIOUS
<1>0. Surplus = 0
  BY DemoAssumption DEF Init, Surplus
<1>1. /\ movies = <<>> /\ overlaps = 0 /\ Surplus = 0
      /\ DOMAIN reviews = {} /\ \A b \in Browsers : seed[b].at = "idle"
  BY <1>0 DEF Init, EmptyBag, SetToBag, Idle, Script
<1>2. Busy = {}
  BY <1>1 DEF Busy, Running
<1>3. Hurt = {} /\ AllReviews = {}
  BY <1>1, <1>2 DEF Hurt, AllReviews, BagToSet
<1>4. Rivals
  BY <1>1, <1>2, <1>3, FS_EmptySet DEF Rivals
<1>5. ASSUME NEW t PROVE Copies(t) + Cardinality(Creators(t)) <= 1 + overlaps + Surplus
  <2>1. {j \in DOMAIN movies : movies[j] = t} = {} /\ Creators(t) = {}
    BY <1>1, <1>2 DEF Creators
  <2>2. Copies(t) = 0 /\ Cardinality(Creators(t)) = 0
    BY <2>1, FS_EmptySet DEF Copies
  <2> QED BY <1>1, <2>2
<1> QED BY <1>3, <1>4, <1>5 DEF CopiesInv, TitlesCount, ReviewsCount

LEMMA CopiesNext == ASSUME SeedInv, CopiesInv, [Next]_vars PROVE CopiesInv'
<1>1. Grew /\ SeedInv'
  BY EverythingGrows, SeedNext DEF SeedInv
<1>2. CASE Handle \/ Interfere \/ UNCHANGED vars
  <2>1. UNCHANGED <<movies, reviews, seed, overlaps, faults>>
    BY <1>2 DEF Handle, Interfere, vars, stores, bounds
  <2> QED BY <1>1, <2>1, ScriptsUnmoved
<1>3. ASSUME NEW b \in Browsers, NEW only \in BOOLEAN, Click(b, only) PROVE CopiesInv'
  BY <1>1, <1>3, ClickCounts
<1>4. ASSUME NEW b \in Browsers, Step(b) \/ Stop(b) PROVE CopiesInv'
  BY <1>1, <1>4, QuietSteps, ReadMoviesCounts, CreateCounts, ReadReviewsCounts, PostCounts DEF Step
<1> QED BY <1>2, <1>3, <1>4 DEF Next

\* CopiesNeedRivals: a movie or a review is there once, once more at most for each seed that
\* began beside another, and for each call that went wrong at most as many times as there are
\* instances to carry it out.
THEOREM CopiesCostRivals == Spec => []CopiesNeedRivals
<1>1. Spec => []CopiesInv
  BY CopiesInitially, CopiesNext, SeedInvariance, PTL DEF Spec
<1>2. ASSUME SeedInv, CopiesInv PROVE CopiesNeedRivals
  <2>1. ASSUME NEW t \in Range(DemoMovies) PROVE Copies(t) <= 1 + overlaps + Surplus
    <3>1. PICK c \in Nat, n \in Nat : c = Copies(t) /\ n = Cardinality(Creators(t))
      <4>1. Creators(t) \subseteq Busy /\ IsFiniteSet(Busy)
        BY <1>2 DEF Creators, CopiesInv, Rivals
      <4> QED BY <1>2, <4>1, CopiesTyped, FS_Subset, FS_CardinalityType DEF SeedInv
    <3>2. c + n <= 1 + overlaps + Surplus /\ overlaps \in Nat /\ Surplus \in Nat
      BY <1>2, <3>1 DEF CopiesInv, Rivals, TitlesCount
    <3> QED BY <3>1, <3>2
  <2>2. ASSUME NEW x \in AllReviews PROVE reviews[x] <= 1 + overlaps + Surplus
    <3>1. PICK c \in Nat, m \in Nat, n \in Nat :
             c = reviews[x] /\ m = Cardinality(Posters(x)) /\ n = Cardinality(Stand(x))
      BY <1>2, ReviewsOwed DEF Held
    <3>2. c + m + n <= 1 + overlaps + Surplus /\ overlaps \in Nat /\ Surplus \in Nat
      BY <1>2, <3>1 DEF CopiesInv, Rivals, ReviewsCount
    <3> QED BY <3>1, <3>2
  <2> QED BY <2>1, <2>2 DEF CopiesNeedRivals
<1> QED BY <1>1, <1>2, SeedInvariance, PTL
=============================================================================
