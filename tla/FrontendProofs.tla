--------------------------- MODULE FrontendProofs ---------------------------
(***************************************************************************)
(* Proofs about what a browser shows, for any accounts, tokens, movies and *)
(* bounds: the session of a tab (FrontendSession), and the pages with the  *)
(* catalog behind them (ReviewPages).                                      *)
(*                                                                         *)
(* The session.  What can be left of a handler is one of twelve sequences, *)
(* so a handler is at one of few points, and each point says what the      *)
(* session is like.  A user who is not the token's owner takes a logout    *)
(* that was stopped and a login that was stopped.  Tokens are counted with *)
(* a credit: one that is about to be lost has its stop or failure already. *)
(*                                                                         *)
(* The pages.  An id is given out once, so who is gone stays gone; an      *)
(* update that is done holds the fields that nobody set after it.  A page  *)
(* on its way has the items of reviews that were there, then users who had *)
(* registered before, then movies: what is missing then was deleted.  All  *)
(* it read, the history holds.                                             *)
(***************************************************************************)
EXTENDS FrontendSession, ReviewPages, FiniteSetTheorems, SequenceTheorems, TLAPS

----------------------------------------------------------------------------
(* The session.                                                            *)

\* Where a handler is: before its next step, or done.
Where(steps) == IF steps = <<>> THEN "idle" ELSE Head(steps)
Point == Where(script.todo)

GetMeSteps == <<"GET me", "set token", "set user">>
SetTokenSteps == <<"set token", "set user">>
SetUserSteps == <<"set user">>
ClearTokenSteps == <<"clear token", "clear user", "clear selected", "clear nav">>
ClearUserSteps == <<"clear user", "clear selected", "clear nav">>
ClearSelectedSteps == <<"clear selected", "clear nav">>
ClearNavSteps == <<"clear nav">>

\* What can be left of a handler, and which step comes after which.
Todos == {<<>>, SeedSteps, RegisterSteps, LoginSteps, GetMeSteps, SetTokenSteps, SetUserSteps,
          LogoutSteps, ClearTokenSteps, ClearUserSteps, ClearSelectedSteps, ClearNavSteps}
Follows(next, step) ==
    <<step, next>> \in
        {<<"POST register", "POST login">>, <<"POST login", "GET me">>, <<"GET me", "set token">>,
         <<"set token", "set user">>, <<"set user", "idle">>,
         <<"POST logout", "clear token">>, <<"clear token", "clear user">>,
         <<"clear user", "clear selected">>, <<"clear selected", "clear nav">>, <<"clear nav", "idle">>,
         <<"POST demo login", "idle">>}

BeforeToken == {"POST register", "POST login", "GET me", "set token"}
LoggingIn == BeforeToken \cup {"set user"}
LoggingOut == {"POST logout", "clear token", "clear user", "clear selected", "clear nav"}

Scripts == [todo : Todos, account : Accounts \cup {None},
            token : Tokens \cup {None}, profile : Accounts \cup {None}]
Types == TypeOK /\ IsFiniteSet(Live) /\ script \in Scripts

\* What a handler knows at each of its points.
Script ==
    /\ Point = "POST register" => script.account \in Accounts
    /\ Point \in {"POST register", "POST login", "POST demo login"} \cup LoggingOut => script.token = None
    /\ Point = "idle" => script.token \in {None, session.token}
    /\ Point \in {"GET me", "set token", "set user"} => script.token # None
    /\ Point \in {"set token", "set user"} =>
          /\ script.profile # None
          /\ script.token \in Live => owner[script.token] = script.profile
    /\ Point = "set user" => session.token = script.token
    /\ Point = "clear user" => session.token = None
    /\ Point \in {"clear selected", "clear nav"} => session.token = None /\ session.user = None

\* Whoever logs in has no token, or no user left, and a user left takes a stop.
LoginFindsGate ==
    Point \in LoggingIn =>
        /\ session.user # None => stops >= 1
        /\ Point \in BeforeToken => session.token = None \/ session.user = None

\* A user without a token was left by a logout that was stopped, or is about to go.
StaleUser ==
    (session.user # None /\ session.token = None) => stops >= 1 \/ Point = "clear user"

\* A user who is not the token's owner: two stops, or is about to be replaced.
Mismatch ==
    /\ session.token \in Live /\ session.user # None
    /\ owner[session.token] # session.user
MismatchTakesTwo == Mismatch => stops >= 2 \/ Point = "set user"

\* The token of the session is about to be lost, and what caused it has happened:
\* a login stopped before its user will be repeated, a logout was refused.
Orphans == Live \ {session.token, script.token}
Losing ==
    /\ session.token \in Live
    /\ \/ session.user = None /\ Point # "set user"
       \/ Point = "clear token"
LossesHaveCauses == Cardinality(Orphans) + (IF Losing THEN 1 ELSE 0) <= Causes

\* A selected movie is that of the user who is shown, who is there.
SelectionHasUser ==
    session.selected # None =>
        \/ stops >= 1
        \/ session.user # None /\ chosenBy = session.user
        \/ Point = "clear selected"

SessionInv ==
    /\ Types /\ Script
    /\ LoginFindsGate /\ StaleUser /\ MismatchTakesTwo /\ LossesHaveCauses /\ SelectionHasUser

LEMMA TailOfTwo == ASSUME NEW a, NEW b PROVE Tail(<<a, b>>) = <<b>>
  OBVIOUS

LEMMA TailOfThree == ASSUME NEW a, NEW b, NEW c PROVE Tail(<<a, b, c>>) = <<b, c>>
  OBVIOUS

LEMMA TailOfFour == ASSUME NEW a, NEW b, NEW c, NEW d PROVE Tail(<<a, b, c, d>>) = <<b, c, d>>
<1> DEFINE s == <<a, b, c, d>>
<1> DEFINE t == <<b, c, d>>
<1>1. s \in Seq({a, b, c, d}) /\ Len(s) = 4 /\ t \in Seq({a, b, c, d}) /\ Len(t) = 3
  OBVIOUS
<1>2. /\ Tail(s) \in Seq({a, b, c, d}) /\ Len(Tail(s)) = 3
      /\ \A i \in 1 .. 3 : Tail(s)[i] = s[i + 1]
  BY <1>1
<1>3. \A i \in 1 .. 3 : Tail(s)[i] = t[i]
  BY <1>2
<1> HIDE DEF s, t
<1>4. Tail(s) = t
  BY <1>1, <1>2, <1>3, SeqEqual
<1> QED
  BY <1>4 DEF s, t

LEMMA TailOfFive ==
  ASSUME NEW a, NEW b, NEW c, NEW d, NEW e
  PROVE  Tail(<<a, b, c, d, e>>) = <<b, c, d, e>>
<1> DEFINE s == <<a, b, c, d, e>>
<1> DEFINE t == <<b, c, d, e>>
<1>1. s \in Seq({a, b, c, d, e}) /\ Len(s) = 5 /\ t \in Seq({a, b, c, d, e}) /\ Len(t) = 4
  OBVIOUS
<1>2. /\ Tail(s) \in Seq({a, b, c, d, e}) /\ Len(Tail(s)) = 4
      /\ \A i \in 1 .. 4 : Tail(s)[i] = s[i + 1]
  BY <1>1
<1>3. \A i \in 1 .. 4 : Tail(s)[i] = t[i]
  BY <1>2
<1> HIDE DEF s, t
<1>4. Tail(s) = t
  BY <1>1, <1>2, <1>3, SeqEqual
<1> QED
  BY <1>4 DEF s, t

LEMMA OneAndOthers ==
  ASSUME NEW S, NEW a \in S, NEW s \in Seq(S)
  PROVE  <<a>> \o s # <<>> /\ Head(<<a>> \o s) = a /\ Tail(<<a>> \o s) = s
<1> DEFINE t == <<a>> \o s
<1>1. <<a>> \in Seq(S) /\ Len(<<a>>) = 1
  OBVIOUS
<1>2. t \in Seq(S) /\ Len(t) = 1 + Len(s)
  BY <1>1, ConcatProperties
<1>3. t[1] = a /\ \A i \in 1 .. Len(s) : t[i + 1] = s[i]
  BY <1>1
<1>4. t # <<>>
  BY <1>1
<1> HIDE DEF t
<1>5. Tail(t) \in Seq(S) /\ Len(Tail(t)) = Len(s) /\ \A i \in 1 .. Len(s) : Tail(t)[i] = t[i + 1]
  BY <1>2, <1>4
<1>6. Tail(t) = s
  BY <1>3, <1>5, SeqEqual
<1>7. Head(t) = a
  BY <1>2, <1>3, <1>4
<1> QED
  BY <1>4, <1>6, <1>7 DEF t

LEMMA RegisterThenLogin ==
  RegisterSteps # <<>> /\ Head(RegisterSteps) = "POST register" /\ Tail(RegisterSteps) = LoginSteps
<1> DEFINE S == {"POST register", "POST login", "GET me", "set token", "set user"}
<1>1. LoginSteps \in Seq(S) /\ "POST register" \in S
  BY DEF LoginSteps
<1> HIDE DEF S
<1> QED
  BY <1>1, OneAndOthers DEF RegisterSteps

LEMMA LogoutThenClear == Tail(LogoutSteps) = ClearTokenSteps
<1> DEFINE a == "POST logout"
<1> DEFINE b == "clear token"
<1> DEFINE c == "clear user"
<1> DEFINE d == "clear selected"
<1> DEFINE e == "clear nav"
<1>1. LogoutSteps = <<a, b, c, d, e>> /\ ClearTokenSteps = <<b, c, d, e>>
  BY DEF LogoutSteps, ClearTokenSteps
<1> HIDE DEF a, b, c, d, e
<1> QED
  BY <1>1, TailOfFive

\* What is left of a handler after each of its points.
LEMMA Points ==
  /\ \A s \in Todos \ {<<>>} : Tail(s) \in Todos /\ Follows(Where(Tail(s)), Head(s))
  /\ Where(<<>>) = "idle" /\ Where(RegisterSteps) = "POST register" /\ Where(LoginSteps) = "POST login"
  /\ Where(LogoutSteps) = "POST logout" /\ Where(SeedSteps) = "POST demo login"
  /\ {<<>>, SeedSteps, RegisterSteps, LoginSteps, LogoutSteps} \subseteq Todos
<1> DEFINE Good(s) == Tail(s) \in Todos /\ Follows(Where(Tail(s)), Head(s))
<1>1. Tail(LoginSteps) = GetMeSteps
  BY TailOfFour DEF LoginSteps, GetMeSteps
<1>2. Head(LoginSteps) = "POST login" /\ LoginSteps # <<>>
  BY DEF LoginSteps
<1>3. Tail(GetMeSteps) = SetTokenSteps
  BY TailOfThree DEF GetMeSteps, SetTokenSteps
<1>4. Head(GetMeSteps) = "GET me" /\ GetMeSteps # <<>>
  BY DEF GetMeSteps
<1>5. Tail(SetTokenSteps) = SetUserSteps
  BY TailOfTwo DEF SetTokenSteps, SetUserSteps
<1>6. Head(SetTokenSteps) = "set token" /\ SetTokenSteps # <<>>
  BY DEF SetTokenSteps
<1>7. Tail(SetUserSteps) = <<>>
  BY DEF SetUserSteps
<1>8. Head(SetUserSteps) = "set user" /\ SetUserSteps # <<>>
  BY DEF SetUserSteps
<1>9. Tail(LogoutSteps) = ClearTokenSteps
  BY LogoutThenClear
<1>10. Head(LogoutSteps) = "POST logout" /\ LogoutSteps # <<>>
  BY DEF LogoutSteps
<1>11. Tail(ClearTokenSteps) = ClearUserSteps
  BY TailOfFour DEF ClearTokenSteps, ClearUserSteps
<1>12. Head(ClearTokenSteps) = "clear token" /\ ClearTokenSteps # <<>>
  BY DEF ClearTokenSteps
<1>13. Tail(ClearUserSteps) = ClearSelectedSteps
  BY TailOfThree DEF ClearUserSteps, ClearSelectedSteps
<1>14. Head(ClearUserSteps) = "clear user" /\ ClearUserSteps # <<>>
  BY DEF ClearUserSteps
<1>15. Tail(ClearSelectedSteps) = ClearNavSteps
  BY TailOfTwo DEF ClearSelectedSteps, ClearNavSteps
<1>16. Head(ClearSelectedSteps) = "clear selected" /\ ClearSelectedSteps # <<>>
  BY DEF ClearSelectedSteps
<1>17. Tail(ClearNavSteps) = <<>>
  BY DEF ClearNavSteps
<1>18. Head(ClearNavSteps) = "clear nav" /\ ClearNavSteps # <<>>
  BY DEF ClearNavSteps
<1>19. Tail(SeedSteps) = <<>>
  BY DEF SeedSteps
<1>20. Head(SeedSteps) = "POST demo login" /\ SeedSteps # <<>>
  BY DEF SeedSteps
<1>21. /\ <<>> \in Todos /\ SeedSteps \in Todos /\ RegisterSteps \in Todos
      /\ LoginSteps \in Todos /\ GetMeSteps \in Todos /\ SetTokenSteps \in Todos /\ SetUserSteps \in Todos
      /\ LogoutSteps \in Todos /\ ClearTokenSteps \in Todos /\ ClearUserSteps \in Todos
      /\ ClearSelectedSteps \in Todos /\ ClearNavSteps \in Todos
  BY DEF Todos
<1>22. /\ Good(RegisterSteps) /\ Good(LoginSteps) /\ Good(GetMeSteps) /\ Good(SetTokenSteps)
      /\ Good(SetUserSteps) /\ Good(SeedSteps)
  BY <1>1, <1>2, <1>3, <1>4, <1>5, <1>6, <1>7, <1>8, <1>21, <1>19, <1>20, RegisterThenLogin
     DEF Where, Follows
<1>23. /\ Good(LogoutSteps) /\ Good(ClearTokenSteps) /\ Good(ClearUserSteps) /\ Good(ClearSelectedSteps)
      /\ Good(ClearNavSteps)
  BY <1>9, <1>10, <1>11, <1>12, <1>13, <1>14, <1>15, <1>16, <1>17, <1>18, <1>21 DEF Where, Follows
<1>24. \A s \in Todos \ {<<>>} : Good(s)
  <2> HIDE DEF Good
  <2> QED BY <1>22, <1>23 DEF Todos
<1>25. /\ Where(<<>>) = "idle" /\ Where(RegisterSteps) = "POST register" /\ Where(LoginSteps) = "POST login"
      /\ Where(LogoutSteps) = "POST logout" /\ Where(SeedSteps) = "POST demo login"
  BY <1>2, <1>10, <1>20, RegisterThenLogin DEF Where
<1> QED
  BY <1>21, <1>24, <1>25

----------------------------------------------------------------------------
\* The point of a handler tells its next step, and its rest is at the point after.
LEMMA Moves ==
  ASSUME Types, NEW step, Doing(step)
  PROVE  /\ Point = step
         /\ script' = Rest =>
               /\ Follows(Point', step)
               /\ script' \in Scripts
               /\ script'.account = script.account
               /\ script'.token = script.token /\ script'.profile = script.profile
<1>1. script.todo \in Todos \ {<<>>} /\ Head(script.todo) = step
  BY DEF Types, Scripts, Doing
<1>2. Tail(script.todo) \in Todos /\ Follows(Where(Tail(script.todo)), step)
  BY <1>1, Points
<1>3. Point = step
  BY <1>1 DEF Point, Where
<1>4. ASSUME script' = Rest
      PROVE  /\ Follows(Point', step)
             /\ script' \in Scripts
             /\ script'.account = script.account
             /\ script'.token = script.token /\ script'.profile = script.profile
  <2>1. script' = [todo |-> Tail(script.todo), account |-> script.account,
                   token |-> script.token, profile |-> script.profile]
    BY <1>4 DEF Rest, Types, Scripts
  <2>2. /\ script'.todo = Tail(script.todo) /\ script'.account = script.account
        /\ script'.token = script.token /\ script'.profile = script.profile
    BY <2>1
  <2>3. Point' = Where(Tail(script.todo))
    BY <2>2 DEF Point
  <2>4. script' \in Scripts
    BY <1>2, <2>1 DEF Types, Scripts
  <2> QED
    BY <1>2, <2>2, <2>3, <2>4
<1> QED
  BY <1>3, <1>4

\* Steps after which a handler is over.
LEMMA Over ==
  ASSUME script' = Idle
  PROVE  /\ Point' = "idle" /\ script'.token = None /\ script'.account = None /\ script'.profile = None
         /\ script' \in Scripts
  BY Points DEF Point, Idle, Begin, Scripts

----------------------------------------------------------------------------
LEMMA Restricts ==
  ASSUME NEW S, owner' = Restrict(owner, Live \ S)
  PROVE  Live' = Live \ S /\ \A t \in Live' : owner'[t] = owner[t]
  BY DEF Live, Restrict

LEMMA AtMostOneMore ==
  ASSUME NEW S, IsFiniteSet(S), NEW T, NEW x, T \subseteq S \cup {x}
  PROVE  Cardinality(S) \in Nat /\ Cardinality(T) \in Nat /\ Cardinality(T) <= Cardinality(S) + 1
<1>1. /\ IsFiniteSet(S \cup {x})
      /\ Cardinality(S \cup {x}) = Cardinality(S) \/ Cardinality(S \cup {x}) = Cardinality(S) + 1
  BY FS_AddElement
<1>2. IsFiniteSet(T) /\ Cardinality(T) <= Cardinality(S \cup {x})
  BY <1>1, FS_Subset
<1>3. Cardinality(S) \in Nat /\ Cardinality(T) \in Nat
  BY <1>2, FS_CardinalityType
<1> QED
  BY <1>1, <1>2, <1>3

\* What may leave a token behind, counted: a failed request counts for every instance.
LEMMA CausesFollow ==
  ASSUME NEW k \in Nat, NEW n \in Nat, NEW m \in Nat
  PROVE  /\ k + Instances * n + m \in Nat
         /\ (k + 1) + Instances * n + m = k + Instances * n + m + 1
         /\ k + Instances * (n + 1) + m = k + Instances * n + m + Instances
         /\ k + Instances * n + (m + 1) = k + Instances * n + m + 1
         /\ k + Instances * (n + 1) + (m + 1) >= k + Instances * n + m + Instances
<1>1. PICK i \in Nat : i = Instances /\ i >= 1
  BY SessionAssumption
<1>2. i * n \in Nat /\ i * (n + 1) = i * n + i
  BY <1>1
<1>3. PICK p \in Nat, q \in Nat : p = i * n /\ q = i * (n + 1) /\ q = p + i
  BY <1>1, <1>2
<1>4. Instances * n = p /\ Instances * (n + 1) = q
  BY <1>1, <1>3
<1> QED
  BY <1>1, <1>3, <1>4

LEMMA Counted ==
  ASSUME Types
  PROVE  /\ stops \in 0 .. MaxStops /\ failures \in 0 .. MaxFailures /\ seeded \in 0 .. MaxSeeded
         /\ stops \in Nat /\ failures \in Nat /\ seeded \in Nat /\ Causes \in Nat
<1>1. /\ stops \in 0 .. MaxStops /\ failures \in 0 .. MaxFailures /\ seeded \in 0 .. MaxSeeded
      /\ stops \in Nat /\ failures \in Nat /\ seeded \in Nat
  BY SessionAssumption DEF Types, TypeOK
<1> QED
  BY <1>1, CausesFollow DEF Causes

LEMMA CountedNext ==
  ASSUME Types'
  PROVE  Causes' \in Nat
<1>1. stops' \in Nat /\ failures' \in Nat /\ seeded' \in Nat
  BY SessionAssumption DEF Types, TypeOK
<1> QED
  BY <1>1, CausesFollow DEF Causes

\* The ways in which tokens get lost: each has its cause.
LEMMA LossStep ==
  ASSUME Types, Types', LossesHaveCauses, NEW x,
         \/ /\ Orphans' \subseteq Orphans /\ (Losing' => Losing)
            /\ Causes' >= Causes
         \/ /\ Orphans' \subseteq Orphans
            /\ Causes' >= Causes + 1
         \/ /\ Orphans' \subseteq Orphans \cup {x} /\ Losing /\ ~Losing'
            /\ Causes' >= Causes
         \/ /\ Orphans' \subseteq Orphans \cup {x} /\ (Losing' => Losing)
            /\ Causes' >= Causes + 1
  PROVE  LossesHaveCauses'
<1>1. IsFiniteSet(Orphans)
  BY FS_Subset DEF Types, Orphans
<1>2. Orphans' \subseteq Orphans \cup {x}
  OBVIOUS
<1>3. /\ Cardinality(Orphans) \in Nat /\ Cardinality(Orphans') \in Nat
      /\ Cardinality(Orphans') <= Cardinality(Orphans) + 1
  BY <1>1, <1>2, AtMostOneMore
<1>4. Orphans' \subseteq Orphans => Cardinality(Orphans') <= Cardinality(Orphans)
  BY <1>1, FS_Subset
<1> DEFINE c == Cardinality(Orphans)
<1> DEFINE d == Cardinality(Orphans')
<1> DEFINE k == Causes
<1> DEFINE m == Causes'
<1>5. c \in Nat /\ d \in Nat /\ k \in Nat /\ m \in Nat /\ d <= c + 1
  BY <1>3, Counted, CountedNext
<1>6. c + (IF Losing THEN 1 ELSE 0) <= k
  BY DEF LossesHaveCauses
<1>7. \/ d <= c /\ (Losing' => Losing) /\ m >= k
      \/ d <= c /\ m >= k + 1
      \/ Losing /\ ~Losing' /\ m >= k
      \/ (Losing' => Losing) /\ m >= k + 1
  BY <1>4
<1>8. d + (IF Losing' THEN 1 ELSE 0) <= m
  <2> HIDE DEF c, d, k, m
  <2>1. CASE Losing
    BY <1>5, <1>6, <1>7, <2>1
  <2>2. CASE ~Losing
    BY <1>5, <1>6, <1>7, <2>2
  <2> QED
    BY <2>1, <2>2
<1> QED
  BY <1>8 DEF LossesHaveCauses

\* A login that several instances carried out: as many causes as tokens are lost.
LEMMA LossOfBatch ==
  ASSUME Types, Types', LossesHaveCauses, Losing' => Losing,
         NEW X, IsFiniteSet(X), NEW n \in Nat, Cardinality(X) <= n,
         Orphans' \subseteq Orphans \cup X, Causes' >= Causes + n
  PROVE  LossesHaveCauses'
<1>1. IsFiniteSet(Orphans)
  BY FS_Subset DEF Types, Orphans
<1>2. /\ IsFiniteSet(Orphans \cup X)
      /\ Cardinality(Orphans \cup X) = Cardinality(Orphans) + Cardinality(X) - Cardinality(Orphans \cap X)
      /\ IsFiniteSet(Orphans \cap X)
  BY <1>1, FS_Union, FS_Intersection
<1>3. IsFiniteSet(Orphans') /\ Cardinality(Orphans') <= Cardinality(Orphans \cup X)
  BY <1>2, FS_Subset
<1> DEFINE c == Cardinality(Orphans)
<1> DEFINE d == Cardinality(Orphans')
<1> DEFINE e == Cardinality(X)
<1> DEFINE f == Cardinality(Orphans \cap X)
<1> DEFINE k == Causes
<1> DEFINE m == Causes'
<1>4. c \in Nat /\ d \in Nat /\ e \in Nat /\ f \in Nat /\ k \in Nat /\ m \in Nat
  BY <1>1, <1>2, <1>3, FS_CardinalityType, Counted, CountedNext
<1>5. d <= c + e - f /\ e <= n /\ m >= k + n
  BY <1>2, <1>3
<1>6. c + (IF Losing THEN 1 ELSE 0) <= k
  BY DEF LossesHaveCauses
<1>7. d + (IF Losing' THEN 1 ELSE 0) <= m
  <2> HIDE DEF c, d, e, f, k, m
  <2>1. CASE Losing
    BY <1>4, <1>5, <1>6, <2>1
  <2>2. CASE ~Losing
    BY <1>4, <1>5, <1>6, <2>2
  <2> QED
    BY <2>1, <2>2
<1> QED
  BY <1>7 DEF LossesHaveCauses

----------------------------------------------------------------------------
(* The handlers and what interrupts them.                                  *)

LEMMA Beginning == SessionInv /\ Click => SessionInv'
<1> SUFFICES ASSUME SessionInv, Click PROVE SessionInv'
  OBVIOUS
<1>1. PICK h \in Handlers \cup {Idle} : script' = h
  BY DEF Click
<1>2. /\ script' \in Scripts
      /\ script'.token = None /\ script'.profile = None
      /\ \/ Point' = "idle"
         \/ Gate /\ Point' \in {"POST register", "POST login"} /\ script'.account \in Accounts
         \/ ~Gate /\ Point' \in {"POST logout", "POST demo login"}
  <2>1. CASE h = Idle
    <3>1. script' = Idle
      BY <1>1, <2>1
    <3> QED
      BY <3>1, Over
  <2>2. CASE h \in Handlers /\ Gate
    <3>1. PICK steps \in {LoginSteps, RegisterSteps}, a \in Accounts : h = Begin(steps, a)
      BY <2>2 DEF Handlers
    <3>3. script' = [todo |-> steps, account |-> a, token |-> None, profile |-> None]
      BY <1>1, <3>1 DEF Begin
    <3>4. Point' = Where(steps)
      BY <3>3 DEF Point
    <3> QED
      BY <2>2, <3>3, <3>4, Points DEF Scripts
  <2>3. CASE h \in Handlers /\ ~Gate
    <3>1. PICK steps \in {LogoutSteps, SeedSteps} :
             h = [todo |-> steps, account |-> None, token |-> None, profile |-> None]
      BY <2>3 DEF Handlers, Begin
    <3>2. Point' = Where(steps)
      BY <1>1, <3>1 DEF Point
    <3> QED
      BY <1>1, <2>3, <3>1, <3>2, Points DEF Scripts
  <2> QED
    BY <2>1, <2>2, <2>3
<1>3. /\ UNCHANGED <<registered, owner, session, chosenBy, failures, seeded>>
      /\ \/ script.todo = <<>> /\ Point = "idle" /\ stops' = stops
         \/ stops < MaxStops /\ stops' = stops + 1
  BY Points DEF Click, Point
<1>4. stops \in Nat /\ failures \in Nat /\ seeded \in Nat /\ Gate' = Gate /\ Live' = Live
  BY <1>3, SessionAssumption DEF SessionInv, Types, TypeOK, Gate, Live
<1>14. /\ stops' = stops => Causes' >= Causes
       /\ stops' = stops + 1 => Causes' >= Causes + 1
  <2>1. stops' + Instances * failures' + seeded' = stops' + Instances * failures + seeded
    BY <1>3
  <2>2. CASE stops' = stops
    <3>1. Causes' = Causes
      BY <2>1, <2>2 DEF Causes
    <3> QED
      BY <1>4, <2>2, <3>1, CausesFollow DEF Causes
  <2>3. CASE stops' = stops + 1
    <3>1. Causes' = (stops + 1) + Instances * failures + seeded
      BY <1>3, <2>3 DEF Causes
    <3>2. Causes' = Causes + 1 /\ Causes \in Nat
      BY <1>4, <3>1, CausesFollow DEF Causes
    <3> QED
      BY <1>4, <2>3, <3>2
  <2> QED
    BY <2>2, <2>3
<1>5. Types'
  <2>1. stops' \in 0 .. MaxStops
    BY <1>3, <1>4, SessionAssumption DEF SessionInv, Types, TypeOK
  <2>2. script'.account \in Accounts \cup {None} /\ script'.token = None /\ script'.profile = None
    BY <1>2 DEF Scripts
  <2> QED
    BY <1>2, <1>3, <1>4, <2>1, <2>2 DEF SessionInv, Types, TypeOK
<1>6. Script'
  BY <1>2, <1>3 DEF Script, LoggingOut
<1>7. session' = session /\ owner' = owner /\ chosenBy' = chosenBy /\ failures' = failures
  BY <1>3
<1> DEFINE One == stops >= 1
<1> DEFINE Two == stops >= 2
<1>13. /\ \/ Point = "idle" /\ One' = One /\ Two' = Two
          \/ One' /\ (One => Two')
       /\ (One => One') /\ (Two => Two')
  <2>1. CASE Point = "idle" /\ stops' = stops
    BY <2>1
  <2>2. CASE stops' = stops + 1
    <3>1. PICK n \in Nat : n = stops
      BY <1>4
    <3>2. stops' = n + 1
      BY <2>2, <3>1
    <3> QED
      BY <3>1, <3>2
  <2> QED
    BY <1>3, <2>1, <2>2
<1> HIDE DEF One, Two
<1>8. LoginFindsGate'
  BY <1>2, <1>4, <1>7, <1>13 DEF One, Two, SessionInv, LoginFindsGate, StaleUser, Gate, LoggingIn, BeforeToken
<1>9. StaleUser'
  BY <1>2, <1>4, <1>7, <1>13 DEF One, Two, SessionInv, StaleUser
<1>10. MismatchTakesTwo'
  BY <1>2, <1>4, <1>7, <1>13 DEF One, Two, SessionInv, LoginFindsGate, MismatchTakesTwo, Mismatch, LoggingIn
<1>11. SelectionHasUser'
  BY <1>2, <1>4, <1>7, <1>13 DEF One, Two, SessionInv, SelectionHasUser
<1>12. LossesHaveCauses'
  <2>1. CASE script.todo = <<>> /\ Point = "idle" /\ stops' = stops
    <3>1. Orphans' \subseteq Orphans
      BY <1>2, <1>4, <1>7, <2>1, SessionAssumption DEF SessionInv, Script, Types, TypeOK, Orphans
    <3>2. Losing' => Losing
      BY <1>2, <1>4, <1>7, <2>1 DEF Losing, Gate
    <3> QED
      BY <1>5, <1>14, <2>1, <3>1, <3>2, LossStep DEF SessionInv
  <2>2. CASE stops' = stops + 1
    <3>1. Orphans' \subseteq Orphans \cup {script.token}
      BY <1>2, <1>4, <1>7 DEF Orphans
    <3>2. CASE Point = "set user"
      <4>1. Orphans' \subseteq Orphans
        BY <1>2, <1>4, <1>7, <3>2 DEF SessionInv, Script, Orphans
      <4> QED
        BY <1>5, <1>14, <2>2, <4>1, LossStep DEF SessionInv
    <3>3. CASE Point # "set user"
      <4>1. Losing' => Losing
        BY <1>2, <1>4, <1>7, <3>3 DEF Losing
      <4> QED
        BY <1>5, <1>14, <2>2, <3>1, <4>1, LossStep DEF SessionInv
    <3> QED
      BY <3>2, <3>3
  <2> QED
    BY <1>3, <2>1, <2>2
<1> QED
  BY <1>5, <1>6, <1>8, <1>9, <1>10, <1>11, <1>12 DEF SessionInv

----------------------------------------------------------------------------
(* The steps of the handlers.                                              *)

LEMMA Counting ==
  ASSUME Types, Fails \/ Works, stops' = stops, seeded' = seeded
  PROVE  /\ stops' \in 0 .. MaxStops /\ failures' \in 0 .. MaxFailures /\ seeded' \in 0 .. MaxSeeded
         /\ Works => Causes' >= Causes
         /\ Fails => Causes' >= Causes + Instances /\ Causes' >= Causes + 1
         /\ ~(Works /\ Fails)
<1>1. PICK n \in Nat : n = failures /\ n <= MaxFailures
  BY Counted
<1>2. /\ stops' \in 0 .. MaxStops /\ seeded' \in 0 .. MaxSeeded
      /\ Causes' = stops + Instances * failures' + seeded
  BY Counted DEF Causes
<1>3. CASE Works
  <2>1. failures' = n /\ Causes' = Causes
    BY <1>1, <1>2, <1>3 DEF Works, Causes
  <2>2. ~Fails
    BY <1>1, <2>1 DEF Fails
  <2> QED
    BY <1>1, <1>2, <1>3, <2>1, <2>2, Counted, SessionAssumption
<1>4. CASE Fails
  <2>1. failures' = n + 1 /\ n < MaxFailures
    BY <1>1, <1>4 DEF Fails
  <2>2. ~Works
    BY <1>1, <2>1 DEF Works
  <2>3. Causes' = Causes + Instances
    BY <1>1, <1>2, <2>1, Counted, CausesFollow DEF Causes
  <2>4. Causes' >= Causes + Instances /\ Causes' >= Causes + 1
    BY <2>3, Counted, SessionAssumption
  <2> QED
    BY <1>1, <1>2, <1>4, <2>1, <2>2, <2>4, SessionAssumption
<1> QED
  BY <1>3, <1>4

\* A demo login counts as well, whether it worked at once or failed at first.
LEMMA CountingSeeds ==
  ASSUME Types, Fails \/ Works, stops' = stops, seeded < MaxSeeded, seeded' = seeded + 1
  PROVE  /\ stops' \in 0 .. MaxStops /\ failures' \in 0 .. MaxFailures /\ seeded' \in 0 .. MaxSeeded
         /\ Works => Causes' >= Causes + 1
         /\ Fails => Causes' >= Causes + Instances
<1>1. PICK n \in Nat, m \in Nat : n = failures /\ n <= MaxFailures /\ m = seeded /\ m < MaxSeeded
  BY Counted
<1>2. /\ stops' \in 0 .. MaxStops /\ seeded' = m + 1 /\ seeded' \in 0 .. MaxSeeded
      /\ Causes' = stops + Instances * failures' + (m + 1)
      /\ Causes = stops + Instances * n + m
  BY <1>1, Counted, SessionAssumption DEF Causes
<1>3. CASE Works
  <2>1. failures' = n
    BY <1>1, <1>3 DEF Works
  <2>2. Causes' >= Causes + 1
    BY <1>1, <1>2, <2>1, Counted, CausesFollow
  <2>3. ~Fails
    BY <1>1, <2>1 DEF Fails
  <2> QED
    BY <1>1, <1>2, <1>3, <2>1, <2>2, <2>3, SessionAssumption
<1>4. CASE Fails
  <2>1. failures' = n + 1 /\ n < MaxFailures
    BY <1>1, <1>4 DEF Fails
  <2>2. Causes' >= Causes + Instances
    BY <1>1, <1>2, <2>1, Counted, CausesFollow
  <2>3. ~Works
    BY <1>1, <2>1 DEF Works
  <2> QED
    BY <1>1, <1>2, <1>4, <2>1, <2>2, <2>3, SessionAssumption
<1> QED
  BY <1>3, <1>4

LEMMA Typing ==
  ASSUME registered' \subseteq Accounts, Live' \subseteq Tokens, IsFiniteSet(Live'),
         \A t \in Live' : owner'[t] \in registered',
         session' \in [token : Tokens \cup {None}, user : registered' \cup {None},
                      selected : Movies \cup {None}, nav : Pages],
         chosenBy' \in registered' \cup {None},
         script' \in Scripts, script'.profile \in registered' \cup {None},
         stops' \in 0 .. MaxStops, failures' \in 0 .. MaxFailures, seeded' \in 0 .. MaxSeeded
  PROVE  Types'
<1>1. script'.account \in Accounts \cup {None} /\ script'.token \in Tokens \cup {None}
  BY DEF Scripts
<1> QED
  BY <1>1 DEF Types, TypeOK

LEMMA Registering ==
  SessionInv /\ PostRegister /\ UNCHANGED <<chosenBy, stops, seeded>> => SessionInv'
<1> SUFFICES ASSUME SessionInv, PostRegister, UNCHANGED <<chosenBy, stops, seeded>> PROVE SessionInv'
  OBVIOUS
<1>1. Types /\ Script
  BY DEF SessionInv
<1>2. Point = "POST register" /\ script.account \in Accounts /\ script.token = None
  BY <1>1, Moves DEF PostRegister, Script
<1>3. /\ registered' = registered \cup {script.account}
      /\ owner' = owner /\ Live' = Live /\ session' = session /\ chosenBy' = chosenBy
      /\ stops' = stops /\ seeded' = seeded
      /\ Fails \/ Works
  BY DEF PostRegister, Live
<1>4. /\ Point' \in {"idle", "POST login"}
      /\ script'.token = None /\ script'.profile \in {None, script.profile}
      /\ script' \in Scripts
  <2>1. CASE script' = Rest
    <3>1. /\ Follows(Point', "POST register") /\ script' \in Scripts
          /\ script'.token = script.token /\ script'.profile = script.profile
      BY <1>1, <2>1, Moves DEF PostRegister
    <3>2. Point' = "POST login"
      BY <3>1 DEF Follows
    <3> QED
      BY <1>2, <3>1, <3>2
  <2>2. CASE script' = Idle
    BY <2>2, Over
  <2> QED
    BY <2>1, <2>2 DEF PostRegister
<1>5. Types'
  <2>1. registered \subseteq registered' /\ registered' \subseteq Accounts /\ script'.profile \in registered' \cup {None}
    BY <1>1, <1>2, <1>3, <1>4 DEF Types, TypeOK
  <2>2. \A t \in Live' : owner'[t] \in registered'
    BY <1>1, <1>3, <2>1 DEF Types, TypeOK
  <2>3. session' \in [token : Tokens \cup {None}, user : registered' \cup {None},
                     selected : Movies \cup {None}, nav : Pages]
    BY <1>1, <1>3, <2>1 DEF Types, TypeOK
  <2>4. chosenBy' \in registered' \cup {None} /\ Live' \subseteq Tokens /\ IsFiniteSet(Live')
    BY <1>1, <1>3, <2>1 DEF Types, TypeOK
  <2> QED
    BY <1>1, <1>3, <1>4, <2>1, <2>2, <2>3, <2>4, Counting, Typing
<1>6. Script'
  BY <1>4 DEF Script, LoggingOut
<1>7. LoginFindsGate' /\ StaleUser' /\ MismatchTakesTwo' /\ SelectionHasUser'
  BY <1>2, <1>3, <1>4 DEF SessionInv, LoginFindsGate, StaleUser, MismatchTakesTwo, Mismatch,
     SelectionHasUser, LoggingIn, BeforeToken
<1>8. LossesHaveCauses'
  <2>1. Orphans' \subseteq Orphans /\ (Losing' => Losing)
    BY <1>2, <1>3, <1>4 DEF Orphans, Losing
  <2> QED
    BY <1>1, <1>3, <1>5, <2>1, Counting, LossStep DEF SessionInv
<1> QED
  BY <1>5, <1>6, <1>7, <1>8 DEF SessionInv

\* What a step changes that assigns to the session, at most.
LEMMA AfterAssignment ==
  ASSUME Types, Works, stops' = stops, seeded' = seeded, chosenBy' = chosenBy,
         registered' = registered, owner' = owner, Live' = Live,
         script' \in Scripts, script'.profile = script.profile,
         session' \in [token : Tokens \cup {None}, user : registered \cup {None},
                      selected : Movies \cup {None}, nav : Pages]
  PROVE  Types' /\ Causes' >= Causes
<1>1. /\ registered' \subseteq Accounts /\ Live' \subseteq Tokens /\ IsFiniteSet(Live')
      /\ \A t \in Live' : owner'[t] \in registered'
      /\ chosenBy' \in registered' \cup {None} /\ script'.profile \in registered' \cup {None}
      /\ session' \in [token : Tokens \cup {None}, user : registered' \cup {None},
                       selected : Movies \cup {None}, nav : Pages]
  BY DEF Types, TypeOK
<1> QED
  BY <1>1, Counting, Typing

\* The tokens that a login leaves at the server, and what it leaves as it was.
LEMMA Issuing ==
  ASSUME Types, NEW a \in registered, NEW S \in Batches, Issue(S, a)
  PROVE  /\ Live' = Live \cup S /\ IsFiniteSet(Live') /\ Live' \subseteq Tokens
         /\ \A s \in S : owner'[s] = a
         /\ \A s \in Live : owner'[s] = owner[s]
         /\ \A s \in Live' : owner'[s] \in registered
         /\ session.token \in Live' <=> session.token \in Live
         /\ S \subseteq Tokens /\ None \notin S /\ session.token \notin S
         /\ IsFiniteSet(S) /\ Cardinality(S) \in Nat /\ Cardinality(S) <= Instances
<1>1. /\ S \subseteq Tokens /\ S \cap Live = {} /\ session.token \notin S
      /\ IsFiniteSet(S) /\ Cardinality(S) <= Instances
  BY DEF Batches
<1>2. Live' = Live \cup S
  BY DEF Issue, Live
<1>3. IsFiniteSet(Live') /\ Cardinality(S) \in Nat
  BY <1>1, <1>2, FS_Union, FS_CardinalityType DEF Types
<1>4. /\ \A s \in S : owner'[s] = a
      /\ \A s \in Live : owner'[s] = owner[s]
  BY <1>1 DEF Issue
<1> QED
  BY <1>1, <1>2, <1>3, <1>4, SessionAssumption DEF Types, TypeOK

LEMMA NoneIsNotLive == Types => None \notin Live
  BY SessionAssumption DEF Types, TypeOK

LEMMA LoggingInAtServer ==
  SessionInv /\ PostLogin /\ UNCHANGED <<chosenBy, stops, seeded>> => SessionInv'
<1> SUFFICES ASSUME SessionInv, PostLogin, UNCHANGED <<chosenBy, stops, seeded>> PROVE SessionInv'
  OBVIOUS
<1>1. Types /\ Script
  BY DEF SessionInv
<1>2. Point = "POST login" /\ script.token = None
  BY <1>1, Moves DEF PostLogin, Script
<1>3. /\ registered' = registered /\ session' = session /\ chosenBy' = chosenBy
      /\ stops' = stops /\ seeded' = seeded
      /\ Fails \/ Works
  BY DEF PostLogin, AnsweredWith
<1>4. CASE ~Known(script.account)
  <2>1. owner' = owner /\ Live' = Live /\ script' = Idle /\ Works
    BY <1>4 DEF PostLogin, Live
  <2>2. /\ Point' = "idle" /\ script'.token = None /\ script'.profile = None /\ script'.account = None
        /\ script' \in Scripts
    BY <2>1, Over
  <2>3. Types'
    BY <1>1, <1>3, <2>1, <2>2, Counting DEF Types, TypeOK
  <2>4. Script'
    BY <2>2 DEF Script, LoggingOut
  <2>5. LoginFindsGate' /\ StaleUser' /\ MismatchTakesTwo' /\ SelectionHasUser'
    BY <1>2, <1>3, <2>1, <2>2 DEF SessionInv, LoginFindsGate, StaleUser, MismatchTakesTwo, Mismatch,
       SelectionHasUser, LoggingIn, BeforeToken
  <2>6. Orphans' \subseteq Orphans /\ (Losing' => Losing)
    BY <1>2, <1>3, <2>1, <2>2 DEF Orphans, Losing
  <2>7. LossesHaveCauses'
    BY <1>1, <1>3, <2>1, <2>3, <2>6, Counting, LossStep DEF SessionInv
  <2> QED
    BY <2>3, <2>4, <2>5, <2>7 DEF SessionInv
<1>5. CASE Known(script.account)
  <2>1. PICK S \in Batches :
           /\ Issue(S, script.account)
           /\ \/ \E t \in S : AnsweredWith(t, S) /\ script' = [Rest EXCEPT !.token = t]
              \/ Fails /\ script' = Idle
    BY <1>5 DEF PostLogin
  <2>2. script.account \in registered
    BY <1>5 DEF Known
  <2>3. /\ Live' = Live \cup S /\ IsFiniteSet(Live') /\ Live' \subseteq Tokens
        /\ \A s \in S : owner'[s] = script.account
        /\ \A s \in Live : owner'[s] = owner[s]
        /\ \A s \in Live' : owner'[s] \in registered
        /\ session.token \in Live' <=> session.token \in Live
        /\ S \subseteq Tokens /\ None \notin S /\ session.token \notin S
        /\ IsFiniteSet(S) /\ Cardinality(S) \in Nat /\ Cardinality(S) <= Instances
    BY <1>1, <2>1, <2>2, Issuing
  <2>4. /\ script'.profile \in {None, script.profile}
        /\ script' \in Scripts
        /\ \/ /\ Point' = "GET me" /\ script'.token \in S
              /\ \/ S = {script'.token} /\ Works
                 \/ Fails
           \/ Fails /\ Point' = "idle" /\ script'.token = None
    <3>1. CASE \E t \in S : AnsweredWith(t, S) /\ script' = [Rest EXCEPT !.token = t]
      <4>1. PICK t \in S : AnsweredWith(t, S) /\ script' = [Rest EXCEPT !.token = t]
        BY <3>1
      <4>2. script.todo \in Todos \ {<<>>} /\ Head(script.todo) = "POST login"
        BY <1>1 DEF PostLogin, Doing, Types, Scripts
      <4>3. script' = [todo |-> Tail(script.todo), account |-> script.account,
                       token |-> t, profile |-> script.profile]
        BY <1>1, <4>1 DEF Rest, Types, Scripts
      <4>4. Tail(script.todo) \in Todos /\ Where(Tail(script.todo)) = "GET me"
        BY <4>2, Points DEF Follows
      <4>5. Point' = "GET me"
        BY <4>3, <4>4 DEF Point
      <4>6. script' \in Scripts /\ script'.token = t /\ script'.profile = script.profile
        BY <1>1, <2>3, <4>3, <4>4 DEF Types, Scripts
      <4>7. (S = {t} /\ Works) \/ Fails
        BY <4>1 DEF AnsweredWith
      <4> QED
        BY <4>5, <4>6, <4>7
    <3>2. CASE Fails /\ script' = Idle
      BY <3>2, Over
    <3> QED
      BY <2>1, <3>1, <3>2
  <2>5. Types'
    <3>1. /\ registered' \subseteq Accounts /\ \A s \in Live' : owner'[s] \in registered'
          /\ chosenBy' \in registered' \cup {None} /\ script'.profile \in registered' \cup {None}
          /\ session' \in [token : Tokens \cup {None}, user : registered' \cup {None},
                           selected : Movies \cup {None}, nav : Pages]
      BY <1>1, <1>3, <2>3, <2>4 DEF Types, TypeOK
    <3> QED
      BY <1>1, <1>3, <2>3, <2>4, <3>1, Counting, Typing
  <2>6. Script'
    BY <2>3, <2>4 DEF Script, LoggingOut
  <2>7. LoginFindsGate' /\ StaleUser' /\ SelectionHasUser'
    BY <1>2, <1>3, <2>4 DEF SessionInv, LoginFindsGate, StaleUser, SelectionHasUser, LoggingIn, BeforeToken
  <2>8. MismatchTakesTwo'
    BY <1>2, <1>3, <2>3, <2>4 DEF SessionInv, MismatchTakesTwo, Mismatch
  <2>9. LossesHaveCauses'
    <3>1. Losing' => Losing
      BY <1>2, <1>3, <2>3, <2>4 DEF Losing
    <3>2. CASE Works
      <4>1. S = {script'.token}
        BY <1>1, <1>3, <2>4, <3>2, Counting
      <4>2. Orphans' \subseteq Orphans
        BY <1>1, <1>2, <1>3, <2>3, <4>1, NoneIsNotLive DEF Orphans
      <4>3. Causes' >= Causes
        BY <1>1, <1>3, <3>2, Counting
      <4> QED
        BY <1>1, <2>5, <3>1, <4>2, <4>3, LossStep DEF SessionInv
    <3>3. CASE Fails
      <4>1. Orphans' \subseteq Orphans \cup S
        BY <1>1, <1>2, <1>3, <2>3, NoneIsNotLive DEF Orphans
      <4>2. Causes' >= Causes + Instances
        BY <1>1, <1>3, <3>3, Counting
      <4> QED
        BY <1>1, <2>3, <2>5, <3>1, <4>1, <4>2, LossOfBatch, SessionAssumption DEF SessionInv
    <3> QED
      BY <1>3, <3>2, <3>3
  <2> QED
    BY <2>5, <2>6, <2>7, <2>8, <2>9 DEF SessionInv
<1> QED
  BY <1>4, <1>5

LEMMA LoggingInForSeed == SessionInv /\ PostDemoLogin => SessionInv'
<1> SUFFICES ASSUME SessionInv, PostDemoLogin PROVE SessionInv'
  OBVIOUS
<1>1. Types /\ Script
  BY DEF SessionInv
<1>2. Point = "POST demo login" /\ script.token = None
  BY <1>1, Moves DEF PostDemoLogin, Script
<1>3. registered' = registered /\ session' = session /\ chosenBy' = chosenBy /\ stops' = stops
  BY DEF PostDemoLogin
<1>4. CASE script' = Rest /\ Works /\ UNCHANGED <<owner, seeded>>
  <2>1. /\ Follows(Point', "POST demo login") /\ script' \in Scripts
        /\ script'.token = None /\ script'.profile = script.profile
        /\ owner' = owner /\ Live' = Live /\ seeded' = seeded
    BY <1>1, <1>2, <1>4, Moves DEF PostDemoLogin, Live
  <2>2. Point' = "idle"
    BY <2>1 DEF Follows
  <2>3. Types' /\ Causes' >= Causes
    <3>1. session' \in [token : Tokens \cup {None}, user : registered \cup {None},
                       selected : Movies \cup {None}, nav : Pages]
      BY <1>1, <1>3 DEF Types, TypeOK
    <3> QED
      BY <1>1, <1>3, <1>4, <2>1, <3>1, AfterAssignment
  <2>4. Script'
    BY <2>1, <2>2 DEF Script, LoggingOut
  <2>5. LoginFindsGate' /\ StaleUser' /\ MismatchTakesTwo' /\ SelectionHasUser'
    BY <1>2, <1>3, <2>1, <2>2 DEF SessionInv, LoginFindsGate, StaleUser, MismatchTakesTwo, Mismatch,
       SelectionHasUser, LoggingIn, BeforeToken
  <2>6. Orphans' \subseteq Orphans /\ (Losing' => Losing)
    BY <1>2, <1>3, <2>1, <2>2 DEF Orphans, Losing
  <2>7. LossesHaveCauses'
    BY <1>1, <2>3, <2>6, LossStep DEF SessionInv
  <2> QED
    BY <2>3, <2>4, <2>5, <2>7 DEF SessionInv
<1>5. CASE script' = script /\ ~(script' = Rest /\ Works /\ UNCHANGED <<owner, seeded>>)
  <2>1. PICK a \in registered, S \in Batches :
           /\ Issue(S, a)
           /\ \/ /\ \E t \in S : AnsweredWith(t, S)
                 /\ seeded < MaxSeeded /\ seeded' = seeded + 1
              \/ Fails /\ UNCHANGED seeded
    BY <1>5 DEF PostDemoLogin
  <2>2. /\ Live' = Live \cup S /\ IsFiniteSet(Live') /\ Live' \subseteq Tokens
        /\ \A s \in Live : owner'[s] = owner[s]
        /\ \A s \in Live' : owner'[s] \in registered
        /\ session.token \in Live' <=> session.token \in Live
        /\ IsFiniteSet(S) /\ Cardinality(S) \in Nat /\ Cardinality(S) <= Instances
    BY <1>1, <2>1, Issuing
  <2>3. Point' = Point
    BY <1>5 DEF Point
  <2>4. /\ stops' \in 0 .. MaxStops /\ failures' \in 0 .. MaxFailures /\ seeded' \in 0 .. MaxSeeded
        /\ \/ Cardinality(S) <= 1 /\ Causes' >= Causes + 1
           \/ Causes' >= Causes + Instances
    <3>1. CASE Fails /\ seeded' = seeded
      BY <1>1, <1>3, <3>1, Counting
    <3>2. CASE (\E t \in S : AnsweredWith(t, S)) /\ seeded < MaxSeeded /\ seeded' = seeded + 1
      <4>1. PICK t \in S : AnsweredWith(t, S)
        BY <3>2
      <4>2. (S = {t} /\ Works) \/ Fails
        BY <4>1 DEF AnsweredWith
      <4>3. S = {t} => Cardinality(S) <= 1
        BY FS_Singleton
      <4> QED
        BY <1>1, <1>3, <3>2, <4>2, <4>3, CountingSeeds
    <3> QED
      BY <2>1, <3>1, <3>2
  <2>5. Types'
    <3>1. /\ registered' \subseteq Accounts /\ \A s \in Live' : owner'[s] \in registered'
          /\ chosenBy' \in registered' \cup {None} /\ script'.profile \in registered' \cup {None}
          /\ session' \in [token : Tokens \cup {None}, user : registered' \cup {None},
                           selected : Movies \cup {None}, nav : Pages]
          /\ script' \in Scripts
      BY <1>1, <1>3, <1>5, <2>2 DEF Types, TypeOK
    <3> QED
      BY <2>2, <2>4, <3>1, Typing
  <2>6. Script'
    BY <1>2, <1>5, <2>3 DEF Script, LoggingOut
  <2>7. LoginFindsGate' /\ StaleUser' /\ SelectionHasUser'
    BY <1>2, <1>3, <2>3 DEF SessionInv, LoginFindsGate, StaleUser, SelectionHasUser, LoggingIn, BeforeToken
  <2>8. MismatchTakesTwo'
    BY <1>2, <1>3, <2>2, <2>3 DEF SessionInv, MismatchTakesTwo, Mismatch
  <2>9. LossesHaveCauses'
    <3>1. Losing' => Losing
      BY <1>2, <1>3, <2>2, <2>3 DEF Losing
    <3>2. Orphans' \subseteq Orphans \cup S
      BY <1>3, <1>5, <2>2 DEF Orphans
    <3>3. CASE Cardinality(S) <= 1 /\ Causes' >= Causes + 1
      BY <1>1, <2>2, <2>5, <3>1, <3>2, <3>3, LossOfBatch DEF SessionInv
    <3>4. CASE Causes' >= Causes + Instances
      BY <1>1, <2>2, <2>5, <3>1, <3>2, <3>4, LossOfBatch, SessionAssumption DEF SessionInv
    <3> QED
      BY <2>4, <3>3, <3>4
  <2> QED
    BY <2>5, <2>6, <2>7, <2>8, <2>9 DEF SessionInv
<1> QED
  BY <1>4, <1>5 DEF PostDemoLogin

LEMMA AskingWho ==
  SessionInv /\ GetMe /\ UNCHANGED <<chosenBy, stops, seeded>> => SessionInv'
<1> SUFFICES ASSUME SessionInv, GetMe, UNCHANGED <<chosenBy, stops, seeded>> PROVE SessionInv'
  OBVIOUS
<1>1. Types /\ Script
  BY DEF SessionInv
<1>2. Point = "GET me" /\ script.token # None
  BY <1>1, Moves DEF GetMe, Script
<1>3. /\ registered' = registered /\ owner' = owner /\ Live' = Live /\ session' = session
      /\ chosenBy' = chosenBy
      /\ stops' = stops /\ seeded' = seeded
      /\ Fails \/ Works
  BY DEF GetMe, Live
<1>4. /\ script' \in Scripts
      /\ \/ /\ Works /\ Point' = "set token" /\ script'.token = script.token
            /\ script.token \in Live /\ script'.profile = owner[script.token]
         \/ /\ Works /\ script.token \notin Live
            /\ Point' = "idle" /\ script'.token = None /\ script'.profile = None
         \/ Fails /\ Point' = "idle" /\ script'.token = None /\ script'.profile = None
  <2>1. CASE script.token \in Live /\ Works /\ script' = [Rest EXCEPT !.profile = owner[script.token]]
    <3>1. script.todo \in Todos \ {<<>>} /\ Head(script.todo) = "GET me"
      BY <1>1 DEF GetMe, Doing, Types, Scripts
    <3>2. script' = [todo |-> Tail(script.todo), account |-> script.account,
                     token |-> script.token, profile |-> owner[script.token]]
      BY <1>1, <2>1 DEF Rest, Types, Scripts
    <3>3. Tail(script.todo) \in Todos /\ Where(Tail(script.todo)) = "set token"
      BY <3>1, Points DEF Follows
    <3>4. Point' = "set token"
      BY <3>2, <3>3 DEF Point
    <3>5. owner[script.token] \in Accounts
      BY <1>1, <2>1 DEF Types, TypeOK
    <3>6. script' \in Scripts /\ script'.token = script.token /\ script'.profile = owner[script.token]
      BY <1>1, <3>2, <3>3, <3>5 DEF Types, Scripts
    <3> QED
      BY <2>1, <3>4, <3>6
  <2>2. CASE script.token \notin Live /\ Works /\ script' = Idle
    BY <2>2, Over
  <2>3. CASE Fails /\ script' = Idle
    BY <2>3, Over
  <2> QED
    BY <2>1, <2>2, <2>3 DEF GetMe
<1>5. Types'
  <2>1. /\ registered' \subseteq Accounts /\ Live' \subseteq Tokens
        /\ \A t \in Live' : owner'[t] \in registered'
        /\ chosenBy' \in registered' \cup {None} /\ script'.profile \in registered' \cup {None}
        /\ session' \in [token : Tokens \cup {None}, user : registered' \cup {None},
                         selected : Movies \cup {None}, nav : Pages]
    BY <1>1, <1>3, <1>4 DEF Types, TypeOK
  <2> QED
    BY <1>1, <1>3, <1>4, <2>1, Counting, Typing DEF Types
<1>6. Script'
  <2>1. script.token \in Live => owner[script.token] # None
    BY <1>1, SessionAssumption DEF Types, TypeOK
  <2> QED
    BY <1>2, <1>3, <1>4, <2>1 DEF Script, LoggingOut
<1>7. LoginFindsGate' /\ StaleUser' /\ MismatchTakesTwo' /\ SelectionHasUser'
  BY <1>2, <1>3, <1>4 DEF SessionInv, LoginFindsGate, StaleUser, MismatchTakesTwo, Mismatch,
     SelectionHasUser, LoggingIn, BeforeToken
<1>8. LossesHaveCauses'
  <2>1. Losing' => Losing
    BY <1>2, <1>3, <1>4 DEF Losing
  <2>2. CASE Works
    <3>1. Orphans' \subseteq Orphans
      BY <1>1, <1>2, <1>3, <1>4, <2>2, Counting DEF Orphans
    <3> QED
      BY <1>1, <1>3, <1>5, <2>1, <2>2, <3>1, Counting, LossStep DEF SessionInv
  <2>3. CASE Fails
    <3>1. Orphans' \subseteq Orphans \cup {script.token}
      BY <1>2, <1>3, <1>4 DEF Orphans
    <3> QED
      BY <1>1, <1>3, <1>5, <2>1, <2>3, <3>1, Counting, LossStep DEF SessionInv
  <2> QED
    BY <1>3, <2>2, <2>3
<1> QED
  BY <1>5, <1>6, <1>7, <1>8 DEF SessionInv

LEMMA LoggingOutAtServer ==
  SessionInv /\ PostLogout /\ UNCHANGED <<chosenBy, stops, seeded>> => SessionInv'
<1> SUFFICES ASSUME SessionInv, PostLogout, UNCHANGED <<chosenBy, stops, seeded>> PROVE SessionInv'
  OBVIOUS
<1>1. Types /\ Script
  BY DEF SessionInv
<1>2. /\ Point = "POST logout" /\ script.token = None
      /\ Follows(Point', "POST logout") /\ script' \in Scripts
      /\ script'.token = script.token /\ script'.profile = script.profile
  BY <1>1, Moves DEF PostLogout, Script, LoggingOut
<1>3. Point' = "clear token"
  BY <1>2 DEF Follows
<1>4. /\ registered' = registered /\ session' = session /\ chosenBy' = chosenBy
      /\ stops' = stops /\ seeded' = seeded
      /\ Fails \/ Works
      /\ Works => Live' = Live \ {session.token}
      /\ Live' \in {Live, Live \ {session.token}}
      /\ \A t \in Live' : owner'[t] = owner[t]
  <2>1. owner' = Restrict(owner, Live \ {session.token}) \/ owner' = owner
    BY DEF PostLogout
  <2>2. Works \/ Fails
    BY DEF PostLogout
  <2>3. ~(Works /\ Fails)
    BY <1>1, <2>2, Counting
  <2>4. Works => owner' = Restrict(owner, Live \ {session.token})
    BY <2>3 DEF PostLogout
  <2>5. owner' = owner => Live' = Live
    BY DEF Live
  <2> QED
    BY <2>1, <2>2, <2>4, <2>5, Restricts DEF PostLogout
<1>5. Live' \subseteq Live /\ IsFiniteSet(Live')
  BY <1>1, <1>4, FS_Subset DEF Types
<1>6. Types'
  <2>1. /\ registered' \subseteq Accounts /\ Live' \subseteq Tokens
        /\ \A t \in Live' : owner'[t] \in registered'
        /\ chosenBy' \in registered' \cup {None} /\ script'.profile \in registered' \cup {None}
        /\ session' \in [token : Tokens \cup {None}, user : registered' \cup {None},
                         selected : Movies \cup {None}, nav : Pages]
    BY <1>1, <1>2, <1>4, <1>5 DEF Types, TypeOK
  <2> QED
    BY <1>1, <1>2, <1>4, <1>5, <2>1, Counting, Typing
<1>7. Script'
  BY <1>2, <1>3 DEF Script, LoggingOut
<1>8. LoginFindsGate' /\ StaleUser' /\ SelectionHasUser'
  BY <1>2, <1>3, <1>4 DEF SessionInv, LoginFindsGate, StaleUser, SelectionHasUser, LoggingIn, BeforeToken
<1>9. MismatchTakesTwo'
  BY <1>2, <1>3, <1>4, <1>5 DEF SessionInv, MismatchTakesTwo, Mismatch
<1>10. LossesHaveCauses'
  <2>1. Orphans' \subseteq Orphans
    BY <1>2, <1>4, <1>5 DEF Orphans
  <2>2. CASE Works
    <3>1. ~Losing'
      BY <1>4, <2>2 DEF Losing
    <3> QED
      BY <1>1, <1>4, <1>6, <2>1, <2>2, <3>1, Counting, LossStep DEF SessionInv
  <2>3. CASE Fails
    BY <1>1, <1>4, <1>6, <2>1, <2>3, Counting, LossStep DEF SessionInv
  <2> QED
    BY <1>4, <2>2, <2>3
<1> QED
  BY <1>6, <1>7, <1>8, <1>9, <1>10 DEF SessionInv

----------------------------------------------------------------------------
(* The assignments.                                                        *)

LEMMA Assigned ==
  ASSUME Types, NEW step, NEW key \in {"token", "user", "selected", "nav"}, NEW value,
         Assign(step, key, value)
  PROVE  /\ session' = [token |-> IF key = "token" THEN value ELSE session.token,
                        user |-> IF key = "user" THEN value ELSE session.user,
                        selected |-> IF key = "selected" THEN value ELSE session.selected,
                        nav |-> IF key = "nav" THEN value ELSE session.nav]
         /\ registered' = registered /\ owner' = owner /\ Live' = Live /\ Works
         /\ Point = step /\ Follows(Point', step)
         /\ script' \in Scripts /\ script'.token = script.token /\ script'.profile = script.profile
<1>1. session \in [token : Tokens \cup {None}, user : registered \cup {None},
                   selected : Movies \cup {None}, nav : Pages]
  BY DEF Types, TypeOK
<1>2. session' = [session EXCEPT ![key] = value]
  BY DEF Assign
<1>3. session' = [token |-> IF key = "token" THEN value ELSE session.token,
                  user |-> IF key = "user" THEN value ELSE session.user,
                  selected |-> IF key = "selected" THEN value ELSE session.selected,
                  nav |-> IF key = "nav" THEN value ELSE session.nav]
  BY <1>1, <1>2
<1> QED
  BY <1>3, Moves DEF Assign, Live

LEMMA SettingToken ==
  SessionInv /\ Assign("set token", "token", script.token)
    /\ UNCHANGED <<chosenBy, stops, seeded>> => SessionInv'
<1> SUFFICES ASSUME SessionInv, Assign("set token", "token", script.token),
                    UNCHANGED <<chosenBy, stops, seeded>>
             PROVE  SessionInv'
  OBVIOUS
<1>1. Types /\ Script /\ stops' = stops /\ seeded' = seeded /\ chosenBy' = chosenBy
  BY DEF SessionInv
<1>2. /\ session' = [token |-> script.token, user |-> session.user,
                     selected |-> session.selected, nav |-> session.nav]
      /\ registered' = registered /\ owner' = owner /\ Live' = Live /\ Works
      /\ Point = "set token" /\ Follows(Point', "set token")
      /\ script' \in Scripts /\ script'.token = script.token /\ script'.profile = script.profile
  BY <1>1, Assigned
<1>3. Point' = "set user"
  BY <1>2 DEF Follows
<1>4. /\ session'.token = script.token /\ session'.user = session.user
      /\ session'.selected = session.selected
  BY <1>2
<1>5. /\ script.token # None /\ script.profile # None
      /\ script.token \in Live => owner[script.token] = script.profile
  BY <1>1, <1>2 DEF Script, LoggingOut
<1>6. Types' /\ Causes' >= Causes
  <2>1. session' \in [token : Tokens \cup {None}, user : registered \cup {None},
                     selected : Movies \cup {None}, nav : Pages]
    BY <1>1, <1>2, SessionAssumption DEF Types, TypeOK
  <2> QED
    BY <1>1, <1>2, <2>1, AfterAssignment
<1>7. Script'
  BY <1>2, <1>3, <1>4, <1>5 DEF Script, LoggingOut
<1>8. LoginFindsGate' /\ StaleUser' /\ MismatchTakesTwo' /\ SelectionHasUser'
  BY <1>1, <1>2, <1>3, <1>4, <1>5 DEF SessionInv, LoginFindsGate, StaleUser, MismatchTakesTwo, Mismatch,
     SelectionHasUser, LoggingIn, BeforeToken
<1>9. LossesHaveCauses'
  <2>1. Orphans' \subseteq Orphans \cup {session.token} /\ ~Losing'
    BY <1>2, <1>3, <1>4 DEF Orphans, Losing
  <2>2. CASE session.token \in Live
    <3>1. session.token # None
      BY <1>1, <2>2, SessionAssumption DEF Types, TypeOK
    <3>2. session.user = None
      BY <1>2, <3>1 DEF SessionInv, LoginFindsGate, LoggingIn, BeforeToken
    <3>3. Losing
      BY <1>2, <2>2, <3>2 DEF Losing
    <3> QED
      BY <1>1, <1>6, <2>1, <3>3, LossStep DEF SessionInv
  <2>3. CASE session.token \notin Live
    <3>1. Orphans' \subseteq Orphans
      BY <1>2, <1>4, <2>3 DEF Orphans
    <3> QED
      BY <1>1, <1>6, <2>1, <3>1, LossStep DEF SessionInv
  <2> QED
    BY <2>2, <2>3
<1> QED
  BY <1>6, <1>7, <1>8, <1>9 DEF SessionInv

LEMMA SettingUser ==
  SessionInv /\ Assign("set user", "user", script.profile)
    /\ UNCHANGED <<chosenBy, stops, seeded>> => SessionInv'
<1> SUFFICES ASSUME SessionInv, Assign("set user", "user", script.profile),
                    UNCHANGED <<chosenBy, stops, seeded>>
             PROVE  SessionInv'
  OBVIOUS
<1>1. Types /\ Script /\ stops' = stops /\ seeded' = seeded /\ chosenBy' = chosenBy
  BY DEF SessionInv
<1>2. /\ session' = [token |-> session.token, user |-> script.profile,
                     selected |-> session.selected, nav |-> session.nav]
      /\ registered' = registered /\ owner' = owner /\ Live' = Live /\ Works
      /\ Point = "set user" /\ Follows(Point', "set user")
      /\ script' \in Scripts /\ script'.token = script.token /\ script'.profile = script.profile
  BY <1>1, Assigned
<1>3. Point' = "idle"
  BY <1>2 DEF Follows
<1>4. /\ session'.token = session.token /\ session'.user = script.profile
      /\ session'.selected = session.selected
  BY <1>2
<1>5. /\ script.token # None /\ script.profile # None
      /\ script.token \in Live => owner[script.token] = script.profile
      /\ session.token = script.token
  BY <1>1, <1>2 DEF Script, LoggingOut
<1>6. Types' /\ Causes' >= Causes
  <2>1. session' \in [token : Tokens \cup {None}, user : registered \cup {None},
                     selected : Movies \cup {None}, nav : Pages]
    BY <1>1, <1>2, SessionAssumption DEF Types, TypeOK
  <2> QED
    BY <1>1, <1>2, <2>1, AfterAssignment
<1>7. Script'
  BY <1>2, <1>3, <1>4, <1>5 DEF Script, LoggingOut
<1>8. LoginFindsGate' /\ StaleUser' /\ MismatchTakesTwo' /\ SelectionHasUser'
  BY <1>1, <1>2, <1>3, <1>4, <1>5 DEF SessionInv, LoginFindsGate, StaleUser, MismatchTakesTwo, Mismatch,
     SelectionHasUser, LoggingIn, BeforeToken
<1>9. LossesHaveCauses'
  <2>1. Orphans' \subseteq Orphans /\ (Losing' => Losing)
    BY <1>1, <1>2, <1>3, <1>4, <1>5, SessionAssumption DEF Types, TypeOK, Orphans, Losing
  <2> QED
    BY <1>1, <1>6, <2>1, LossStep DEF SessionInv
<1> QED
  BY <1>6, <1>7, <1>8, <1>9 DEF SessionInv

LEMMA ClearingToken ==
  SessionInv /\ Assign("clear token", "token", None)
    /\ UNCHANGED <<chosenBy, stops, seeded>> => SessionInv'
<1> SUFFICES ASSUME SessionInv, Assign("clear token", "token", None),
                    UNCHANGED <<chosenBy, stops, seeded>>
             PROVE  SessionInv'
  OBVIOUS
<1>1. Types /\ Script /\ stops' = stops /\ seeded' = seeded /\ chosenBy' = chosenBy
  BY DEF SessionInv
<1>2. /\ session' = [token |-> None, user |-> session.user,
                     selected |-> session.selected, nav |-> session.nav]
      /\ registered' = registered /\ owner' = owner /\ Live' = Live /\ Works
      /\ Point = "clear token" /\ Follows(Point', "clear token")
      /\ script' \in Scripts /\ script'.token = script.token /\ script'.profile = script.profile
  BY <1>1, Assigned
<1>3. Point' = "clear user"
  BY <1>2 DEF Follows
<1>4. /\ session'.token = None /\ session'.user = session.user
      /\ session'.selected = session.selected
  BY <1>2
<1>5. script.token = None
  BY <1>1, <1>2 DEF Script, LoggingOut
<1>6. Types' /\ Causes' >= Causes
  <2>1. session' \in [token : Tokens \cup {None}, user : registered \cup {None},
                     selected : Movies \cup {None}, nav : Pages]
    BY <1>1, <1>2, SessionAssumption DEF Types, TypeOK
  <2> QED
    BY <1>1, <1>2, <2>1, AfterAssignment
<1>7. Script'
  BY <1>2, <1>3, <1>4, <1>5 DEF Script, LoggingOut
<1>8. LoginFindsGate' /\ StaleUser' /\ MismatchTakesTwo' /\ SelectionHasUser'
  <2>1. ~Mismatch'
    BY <1>1, <1>2, <1>4, SessionAssumption DEF Types, TypeOK, Mismatch
  <2> QED
    BY <1>1, <1>2, <1>3, <1>4, <2>1 DEF SessionInv, LoginFindsGate, StaleUser, MismatchTakesTwo,
       SelectionHasUser, LoggingIn, BeforeToken
<1>9. LossesHaveCauses'
  <2>1. Orphans' \subseteq Orphans \cup {session.token}
    BY <1>2, <1>4, <1>5 DEF Orphans
  <2>2. ~Losing'
    BY <1>1, <1>2, <1>4, SessionAssumption DEF Types, TypeOK, Losing
  <2>3. CASE session.token \in Live
    <3>1. Losing
      BY <1>2, <2>3 DEF Losing
    <3> QED
      BY <1>1, <1>6, <2>1, <2>2, <3>1, LossStep DEF SessionInv
  <2>4. CASE session.token \notin Live
    <3>1. Orphans' \subseteq Orphans
      BY <1>2, <1>4, <1>5, <2>4 DEF Orphans
    <3> QED
      BY <1>1, <1>6, <2>2, <3>1, LossStep DEF SessionInv
  <2> QED
    BY <2>3, <2>4
<1> QED
  BY <1>6, <1>7, <1>8, <1>9 DEF SessionInv

LEMMA ClearingUser ==
  SessionInv /\ Assign("clear user", "user", None)
    /\ UNCHANGED <<chosenBy, stops, seeded>> => SessionInv'
<1> SUFFICES ASSUME SessionInv, Assign("clear user", "user", None),
                    UNCHANGED <<chosenBy, stops, seeded>>
             PROVE  SessionInv'
  OBVIOUS
<1>1. Types /\ Script /\ stops' = stops /\ seeded' = seeded /\ chosenBy' = chosenBy
  BY DEF SessionInv
<1>2. /\ session' = [token |-> session.token, user |-> None,
                     selected |-> session.selected, nav |-> session.nav]
      /\ registered' = registered /\ owner' = owner /\ Live' = Live /\ Works
      /\ Point = "clear user" /\ Follows(Point', "clear user")
      /\ script' \in Scripts /\ script'.token = script.token /\ script'.profile = script.profile
  BY <1>1, Assigned
<1>3. Point' = "clear selected"
  BY <1>2 DEF Follows
<1>4. /\ session'.token = session.token /\ session'.user = None
      /\ session'.selected = session.selected
  BY <1>2
<1>5. script.token = None /\ session.token = None
  BY <1>1, <1>2 DEF Script, LoggingOut
<1>6. Types' /\ Causes' >= Causes
  <2>1. session' \in [token : Tokens \cup {None}, user : registered \cup {None},
                     selected : Movies \cup {None}, nav : Pages]
    BY <1>1, <1>2, SessionAssumption DEF Types, TypeOK
  <2> QED
    BY <1>1, <1>2, <2>1, AfterAssignment
<1>7. Script'
  BY <1>2, <1>3, <1>4, <1>5 DEF Script, LoggingOut
<1>8. LoginFindsGate' /\ StaleUser' /\ MismatchTakesTwo' /\ SelectionHasUser'
  BY <1>1, <1>2, <1>3, <1>4, <1>5 DEF SessionInv, LoginFindsGate, StaleUser, MismatchTakesTwo, Mismatch,
     SelectionHasUser, LoggingIn, BeforeToken
<1>9. LossesHaveCauses'
  <2>1. Orphans' \subseteq Orphans /\ (Losing' => Losing)
    BY <1>1, <1>2, <1>3, <1>4, <1>5, SessionAssumption DEF Types, TypeOK, Orphans, Losing
  <2> QED
    BY <1>1, <1>6, <2>1, LossStep DEF SessionInv
<1> QED
  BY <1>6, <1>7, <1>8, <1>9 DEF SessionInv

LEMMA ClearingSelected ==
  SessionInv /\ Assign("clear selected", "selected", None)
    /\ UNCHANGED <<chosenBy, stops, seeded>> => SessionInv'
<1> SUFFICES ASSUME SessionInv, Assign("clear selected", "selected", None),
                    UNCHANGED <<chosenBy, stops, seeded>>
             PROVE  SessionInv'
  OBVIOUS
<1>1. Types /\ Script /\ stops' = stops /\ seeded' = seeded /\ chosenBy' = chosenBy
  BY DEF SessionInv
<1>2. /\ session' = [token |-> session.token, user |-> session.user,
                     selected |-> None, nav |-> session.nav]
      /\ registered' = registered /\ owner' = owner /\ Live' = Live /\ Works
      /\ Point = "clear selected" /\ Follows(Point', "clear selected")
      /\ script' \in Scripts /\ script'.token = script.token /\ script'.profile = script.profile
  BY <1>1, Assigned
<1>3. Point' = "clear nav"
  BY <1>2 DEF Follows
<1>4. /\ session'.token = session.token /\ session'.user = session.user
      /\ session'.selected = None
  BY <1>2
<1>5. script.token = None /\ session.token = None /\ session.user = None
  BY <1>1, <1>2 DEF Script, LoggingOut
<1>6. Types' /\ Causes' >= Causes
  <2>1. session' \in [token : Tokens \cup {None}, user : registered \cup {None},
                     selected : Movies \cup {None}, nav : Pages]
    BY <1>1, <1>2, SessionAssumption DEF Types, TypeOK
  <2> QED
    BY <1>1, <1>2, <2>1, AfterAssignment
<1>7. Script'
  BY <1>2, <1>3, <1>4, <1>5 DEF Script, LoggingOut
<1>8. LoginFindsGate' /\ StaleUser' /\ MismatchTakesTwo' /\ SelectionHasUser'
  BY <1>1, <1>2, <1>3, <1>4, <1>5 DEF SessionInv, LoginFindsGate, StaleUser, MismatchTakesTwo, Mismatch,
     SelectionHasUser, LoggingIn, BeforeToken
<1>9. LossesHaveCauses'
  <2>1. Orphans' \subseteq Orphans /\ (Losing' => Losing)
    BY <1>1, <1>2, <1>3, <1>4, <1>5, SessionAssumption DEF Types, TypeOK, Orphans, Losing
  <2> QED
    BY <1>1, <1>6, <2>1, LossStep DEF SessionInv
<1> QED
  BY <1>6, <1>7, <1>8, <1>9 DEF SessionInv

LEMMA ClearingNav ==
  SessionInv /\ Assign("clear nav", "nav", "Catalog")
    /\ UNCHANGED <<chosenBy, stops, seeded>> => SessionInv'
<1> SUFFICES ASSUME SessionInv, Assign("clear nav", "nav", "Catalog"),
                    UNCHANGED <<chosenBy, stops, seeded>>
             PROVE  SessionInv'
  OBVIOUS
<1>1. Types /\ Script /\ stops' = stops /\ seeded' = seeded /\ chosenBy' = chosenBy
  BY DEF SessionInv
<1>2. /\ session' = [token |-> session.token, user |-> session.user,
                     selected |-> session.selected, nav |-> "Catalog"]
      /\ registered' = registered /\ owner' = owner /\ Live' = Live /\ Works
      /\ Point = "clear nav" /\ Follows(Point', "clear nav")
      /\ script' \in Scripts /\ script'.token = script.token /\ script'.profile = script.profile
  BY <1>1, Assigned
<1>3. Point' = "idle"
  BY <1>2 DEF Follows
<1>4. /\ session'.token = session.token /\ session'.user = session.user
      /\ session'.selected = session.selected
  BY <1>2
<1>5. script.token = None /\ session.token = None /\ session.user = None
  BY <1>1, <1>2 DEF Script, LoggingOut
<1>6. Types' /\ Causes' >= Causes
  <2>1. session' \in [token : Tokens \cup {None}, user : registered \cup {None},
                     selected : Movies \cup {None}, nav : Pages]
    BY <1>1, <1>2, SessionAssumption DEF Types, TypeOK
  <2> QED
    BY <1>1, <1>2, <2>1, AfterAssignment
<1>7. Script'
  BY <1>2, <1>3, <1>4, <1>5 DEF Script, LoggingOut
<1>8. LoginFindsGate' /\ StaleUser' /\ MismatchTakesTwo' /\ SelectionHasUser'
  BY <1>1, <1>2, <1>3, <1>4, <1>5 DEF SessionInv, LoginFindsGate, StaleUser, MismatchTakesTwo, Mismatch,
     SelectionHasUser, LoggingIn, BeforeToken
<1>9. LossesHaveCauses'
  <2>1. Orphans' \subseteq Orphans /\ (Losing' => Losing)
    BY <1>1, <1>2, <1>3, <1>4, <1>5, SessionAssumption DEF Types, TypeOK, Orphans, Losing
  <2> QED
    BY <1>1, <1>6, <2>1, LossStep DEF SessionInv
<1> QED
  BY <1>6, <1>7, <1>8, <1>9 DEF SessionInv

----------------------------------------------------------------------------
(* Pages and tokens.                                                       *)

\* A click on a page that is shown changes what is selected, and the page.
LEMMA Browsing ==
  ASSUME SessionInv, session.token # None, session.user # None,
         session' \in [token : {session.token}, user : {session.user},
                       selected : Movies \cup {None}, nav : Pages],
         \/ chosenBy' = session.user
         \/ session'.selected = session.selected /\ chosenBy' = chosenBy,
         UNCHANGED <<registered, owner, script, stops, failures, seeded>>
  PROVE  SessionInv'
<1>1. Types /\ Script
  BY DEF SessionInv
<1>2. session'.token = session.token /\ session'.user = session.user
  OBVIOUS
<1>3. /\ registered' = registered /\ owner' = owner /\ Live' = Live /\ script' = script
      /\ stops' = stops /\ failures' = failures /\ seeded' = seeded /\ Point' = Point
  BY DEF Live, Point
<1>4. Types'
  BY <1>1, <1>3 DEF Types, TypeOK
<1>5. Script'
  BY <1>1, <1>2, <1>3 DEF Script
<1>6. LoginFindsGate' /\ StaleUser' /\ MismatchTakesTwo'
  BY <1>2, <1>3 DEF SessionInv, LoginFindsGate, StaleUser, MismatchTakesTwo, Mismatch
<1>7. SelectionHasUser'
  BY <1>2, <1>3 DEF SessionInv, SelectionHasUser
<1>8. LossesHaveCauses'
  <2>1. Orphans' = Orphans /\ Losing' = Losing /\ Causes' = Causes
    BY <1>2, <1>3 DEF Orphans, Losing, Causes
  <2> QED
    BY <2>1 DEF SessionInv, LossesHaveCauses
<1> QED
  BY <1>4, <1>5, <1>6, <1>7, <1>8 DEF SessionInv

LEMMA Selecting == ASSUME NEW movie \in Movies PROVE SessionInv /\ Select(movie) => SessionInv'
<1> SUFFICES ASSUME SessionInv, Select(movie) PROVE SessionInv'
  OBVIOUS
<1>1. session' = [token |-> session.token, user |-> session.user, selected |-> movie, nav |-> "Reviews"]
  BY DEF Select, SessionInv, Types, TypeOK
<1> QED
  BY <1>1, Browsing, SessionAssumption DEF Select, Gate

LEMMA Navigating == ASSUME NEW p \in Pages PROVE SessionInv /\ Navigate(p) => SessionInv'
<1> SUFFICES ASSUME SessionInv, Navigate(p) PROVE SessionInv'
  OBVIOUS
<1>1. /\ session' = [token |-> session.token, user |-> session.user, selected |-> session.selected, nav |-> p]
      /\ session.selected \in Movies \cup {None}
  BY DEF Navigate, SessionInv, Types, TypeOK
<1> QED
  BY <1>1, Browsing, SessionAssumption DEF Navigate, Gate

LEMMA Expiring == ASSUME NEW t \in Tokens PROVE SessionInv /\ Expire(t) => SessionInv'
<1> SUFFICES ASSUME SessionInv, Expire(t) PROVE SessionInv'
  OBVIOUS
<1>1. Types /\ Script
  BY DEF SessionInv
<1>2. /\ registered' = registered /\ session' = session /\ chosenBy' = chosenBy /\ script' = script
      /\ stops' = stops /\ failures' = failures /\ seeded' = seeded /\ Point' = Point
      /\ Live' = Live \ {t} /\ \A s \in Live' : owner'[s] = owner[s]
  BY Restricts DEF Expire, Point
<1>3. Live' \subseteq Live /\ IsFiniteSet(Live')
  BY <1>1, <1>2, FS_Subset DEF Types
<1>4. Types'
  BY <1>1, <1>2, <1>3 DEF Types, TypeOK
<1>5. Script'
  BY <1>1, <1>2, <1>3 DEF Script
<1>6. LoginFindsGate' /\ StaleUser' /\ SelectionHasUser'
  BY <1>2 DEF SessionInv, LoginFindsGate, StaleUser, SelectionHasUser
<1>7. MismatchTakesTwo'
  BY <1>2, <1>3 DEF SessionInv, MismatchTakesTwo, Mismatch
<1>8. LossesHaveCauses'
  <2>1. Orphans' \subseteq Orphans /\ (Losing' => Losing)
    BY <1>2, <1>3 DEF Orphans, Losing
  <2>2. Causes' = Causes
    BY <1>2 DEF Causes
  <2>3. Causes' >= Causes
    BY <1>1, <2>2, Counted
  <2> QED
    BY <1>1, <1>4, <2>1, <2>3, LossStep DEF SessionInv
<1> QED
  BY <1>4, <1>5, <1>6, <1>7, <1>8 DEF SessionInv

----------------------------------------------------------------------------
LEMMA SessionInit == Init => SessionInv
<1> SUFFICES ASSUME Init PROVE SessionInv
  OBVIOUS
<1>1. Live = {} /\ IsFiniteSet({}) /\ Cardinality({}) = 0
  BY FS_EmptySet DEF Init, Live
<1>2. /\ Point = "idle" /\ script \in Scripts /\ script.token = None /\ script.profile = None
      /\ script.account = None
  BY Points DEF Init, Idle, Begin, Point, Scripts
<1>3. /\ session = [token |-> None, user |-> None, selected |-> None, nav |-> "Catalog"]
      /\ registered = {} /\ chosenBy = None /\ stops = 0 /\ failures = 0 /\ seeded = 0
  BY DEF Init, Empty
<1>4. Types
  BY <1>1, <1>2, <1>3, SessionAssumption DEF Types, TypeOK
<1>5. Script
  BY <1>1, <1>2 DEF Script, LoggingOut
<1>6. LoginFindsGate /\ StaleUser /\ MismatchTakesTwo /\ SelectionHasUser
  BY <1>1, <1>2, <1>3 DEF LoginFindsGate, StaleUser, MismatchTakesTwo, Mismatch, SelectionHasUser,
     LoggingIn, BeforeToken
<1>7. LossesHaveCauses
  <2>1. Orphans = {} /\ ~Losing
    BY <1>1 DEF Orphans, Losing
  <2>2. Causes = 0
    BY <1>3, SessionAssumption DEF Causes
  <2> QED
    BY <1>1, <2>1, <2>2 DEF LossesHaveCauses
<1> QED
  BY <1>4, <1>5, <1>6, <1>7 DEF SessionInv

LEMMA SessionSteps == SessionInv /\ [Next]_vars => SessionInv'
<1> SUFFICES ASSUME SessionInv, [Next]_vars PROVE SessionInv'
  OBVIOUS
<1>1. CASE Click
  BY <1>1, Beginning
<1>2. CASE Step
  <2>1. UNCHANGED <<chosenBy, stops, seeded>>
    BY <1>2 DEF Step
  <2> QED
    BY <1>2, <2>1, Registering, LoggingInAtServer, AskingWho, LoggingOutAtServer, SettingToken, SettingUser,
       ClearingToken, ClearingUser, ClearingSelected, ClearingNav DEF Step
<1>7. CASE PostDemoLogin
  BY <1>7, LoggingInForSeed
<1>3. CASE \E movie \in Movies : Select(movie)
  BY <1>3, Selecting
<1>4. CASE \E p \in Pages : Navigate(p)
  BY <1>4, Navigating
<1>5. CASE \E t \in Tokens : Expire(t)
  BY <1>5, Expiring
<1>6. CASE UNCHANGED vars
  <2>1. /\ registered' = registered /\ owner' = owner /\ session' = session /\ chosenBy' = chosenBy
        /\ script' = script /\ stops' = stops /\ failures' = failures /\ seeded' = seeded
    BY <1>6 DEF vars
  <2>2. Types' /\ Script'
    BY <2>1 DEF SessionInv, Types, TypeOK, Script, Point, Live
  <2>3. Point' = Point /\ Live' = Live
    BY <2>1 DEF Point, Live
  <2>4. LoginFindsGate' /\ StaleUser'
    BY <2>1, <2>3 DEF SessionInv, LoginFindsGate, StaleUser
  <2>5. MismatchTakesTwo'
    BY <2>1, <2>3 DEF SessionInv, MismatchTakesTwo, Mismatch
  <2>6. SelectionHasUser'
    BY <2>1, <2>3 DEF SessionInv, SelectionHasUser
  <2>7. LossesHaveCauses'
    BY <2>1 DEF SessionInv, LossesHaveCauses, Orphans, Losing, Point, Live, Causes
  <2> QED
    BY <2>2, <2>4, <2>5, <2>6, <2>7 DEF SessionInv
<1> QED
  BY <1>1, <1>2, <1>3, <1>4, <1>5, <1>6, <1>7 DEF Next

LEMMA SessionAlways == Spec => []SessionInv
  BY SessionInit, SessionSteps, PTL DEF Spec

\* The session, the handler and the server keep their shapes: what is shown and selected
\* are accounts and movies, and every live token has a registered owner.
THEOREM SessionTypes == Spec => []TypeOK
<1>1. SessionInv => TypeOK
  BY DEF SessionInv, Types
<1> QED
  BY <1>1, SessionAlways, PTL

\* One never sees one user and writes as another, short of two clicks that stop a logout
\* and a login between two assignments (page_auth, sidebar).
THEOREM UserOwnsToken == Spec => []ShownUserOwnsToken
<1>1. SessionInv => ShownUserOwnsToken
  <2> SUFFICES ASSUME SessionInv, PageShown, session.token \in Live, owner[session.token] # session.user
               PROVE  stops >= 2
    BY DEF ShownUserOwnsToken
  <2>1. Point = "idle" /\ session.user # None
    BY Points DEF PageShown, Gate, Point
  <2> QED
    BY <2>1 DEF SessionInv, MismatchTakesTwo, Mismatch
<1> QED
  BY <1>1, SessionAlways, PTL

\* Whatever the clicks, each token left behind at the server has a cause: a stopped handler,
\* a demo login of a seed (get_demo_token), or a request that failed, and then at most one
\* for each instance to which the gateway passed it (proxy_request).
THEOREM OrphansHaveCauses == Spec => []OrphansAreAccounted
<1>1. SessionInv => OrphansAreAccounted
  <2> SUFFICES ASSUME SessionInv PROVE Cardinality(Orphans) <= Causes
    BY DEF OrphansAreAccounted, Orphans
  <2>1. IsFiniteSet(Orphans) /\ Causes \in Nat
    BY FS_Subset, Counted DEF SessionInv, Types, Orphans
  <2>2. Cardinality(Orphans) \in Nat
    BY <2>1, FS_CardinalityType
  <2> QED
    BY <2>1, <2>2 DEF SessionInv, LossesHaveCauses
<1> QED
  BY <1>1, SessionAlways, PTL

\* The next user of the tab does not find the movie of the last, unless a logout was
\* stopped (sidebar clears selected_movie after the user).
THEOREM SelectionsAreOwn == Spec => []SelectionIsOwn
<1>1. SessionInv => SelectionIsOwn
  <2> SUFFICES ASSUME SessionInv, PageShown, session.selected # None, chosenBy # session.user
               PROVE  stops >= 1
    BY DEF SelectionIsOwn
  <2>1. Point = "idle"
    BY Points DEF PageShown, Point
  <2> QED
    BY <2>1 DEF SessionInv, SelectionHasUser
<1> QED
  BY <1>1, SessionAlways, PTL

----------------------------------------------------------------------------
(* The catalog and the pages: what is known of them.                       *)

\* The requests: what is known of one, and of the movies.
Shape(q) == DOMAIN q = {"at", "op", "id", "data", "answer", "overtaken"}
Phases == {"free", "update", "read", "delete", "answered"}
RequestOK(q) ==
    /\ Shape(q) /\ q.at \in Phases
    /\ q.at = "free" => q.op = "none"
    /\ q.at \in {"update", "read"} => q.op = "put"
    /\ q.at = "delete" => q.op = "delete"
    /\ q.at # "free" => q.id \in used
    /\ q.answer # NotFound => q.at = "answered"
    /\ q.op = "put" => q.answer # Deleted

\* An id is given out once, and a movie keeps the fields it was created with.
Ordered ==
    /\ Present \subseteq used /\ used \subseteq Ids
    /\ \A id \in Present : DOMAIN NewMovie \subseteq DOMAIN movies[id]
Served == DOMAIN req = Requests /\ \A r \in Requests : RequestOK(req[r])

\* A movie has the fields that an update has set.
Written ==
    \A r \in Requests :
        (req[r].op = "put" /\ req[r].at \in {"read", "answered"} /\ req[r].id \in Present) =>
            DOMAIN req[r].data \subseteq DOMAIN movies[req[r].id]

CatalogInv == Ordered /\ Served /\ Written /\ OwnFieldsKept /\ GoneStaysGone /\ DeletedOnce

\* What reviews name, and what a page has read of it.
Mentioned == used \cup {Bogus}
Peopled ==
    /\ users \subseteq Users
    /\ \A x \in reviews : x.user \in users /\ x.item \in Mentioned
    /\ selected \in Mentioned \cup {Nothing}
IsMap(f) == DOMAIN f \subseteq used /\ \A id \in DOMAIN f : f[id] # NotFound
PageFields == {"at", "kind", "users", "movies", "whole", "got", "names", "titles", "cards"}
Read ==
    /\ DOMAIN page = PageFields
    /\ IsMap(page.movies) /\ IsMap(page.titles)
    /\ page.names \subseteq Users
    /\ \A x \in page.got : x.user \in users /\ x.item \in Mentioned
    /\ page.at # "shown" => page.cards = {}
    /\ \A c \in page.cards : c.item \in Mentioned
\* The gateway reads the users and the movies after the items.
Joined ==
    /\ page.at \in {"titles", "enrich"} => \A x \in page.got : x.user \in page.names
    /\ page.at = "enrich" => \A x \in page.got : x.item \in DOMAIN page.titles \/ x.item \notin Present
\* While a page is on its way the history holds all that it may show.
OnItsWay == page.at \notin {"closed", "shown"}
Remembered == OnItsWay => Pairs(movies) \cup Pairs(page.movies) \cup Pairs(page.titles) \subseteq held

PagesInv ==
    /\ CatalogInv /\ Peopled /\ Read /\ Joined /\ Remembered
    /\ AuthorsAreNamed /\ UntitledIsGone /\ TitlesWereTrue

USE MovieAssumption, PagesAssumption

----------------------------------------------------------------------------
(* The catalog.                                                            *)

LEMMA MovieIsThere ==
    ASSUME Ordered, NEW id \in Present
    PROVE  movies[id] # NotFound /\ movies[id] # Deleted
<1>1. PICK f \in DOMAIN NewMovie : f # "deleted"
  OBVIOUS
<1>2. f \in DOMAIN movies[id]
  BY <1>1 DEF Ordered
<1>3. DOMAIN Deleted = {"deleted"} /\ DOMAIN NotFound = {}
  BY DEF Deleted, NotFound
<1> QED BY <1>1, <1>2, <1>3

LEMMA CatalogInitially == CatalogInit => CatalogInv
<1> SUFFICES ASSUME CatalogInit PROVE CatalogInv
  OBVIOUS
<1>1. Present = {}
  BY DEF CatalogInit, Present
<1>2. Ordered
  BY <1>1 DEF Ordered, CatalogInit
<1>3. \A r \in Requests : req[r] = Free
  BY DEF CatalogInit
<1>4. Served
  BY <1>3 DEF Served, CatalogInit, RequestOK, Free, Shape, Phases
<1>5. Written /\ OwnFieldsKept /\ GoneStaysGone /\ DeletedOnce
  <2>1. \A r \in Requests : req[r].op = "none" /\ req[r].at = "free" /\ req[r].answer = NotFound
    BY <1>3 DEF Free
  <2>2. NotFound # Deleted
    BY DEF NotFound, Deleted
  <2> QED BY <2>1, <2>2 DEF Written, OwnFieldsKept, GoneStaysGone, DeletedOnce
<1> QED BY <1>2, <1>4, <1>5 DEF CatalogInv

\* What the two atomic changes of a movie leave in the collection.
LEMMA ChangedIs ==
    ASSUME NEW m, NEW data
    PROVE  /\ DOMAIN Changed(m, data) = DOMAIN m \cup DOMAIN data
           /\ \A f \in DOMAIN data : Changed(m, data)[f] = data[f]
           /\ \A f \in DOMAIN m \ DOMAIN data : Changed(m, data)[f] = m[f]
BY DEF Changed, SetFields

LEMMA Creation == ASSUME CatalogInv, CreateMovie PROVE CatalogInv'
<1> PICK id \in Ids \ used : movies' = With(id, NewMovie) /\ used' = used \cup {id} /\ req' = req
  BY DEF CreateMovie
<1>1. /\ Present' = Present \cup {id} /\ movies'[id] = NewMovie
      /\ \A i \in Present : movies'[i] = movies[i]
  <2>1. /\ DOMAIN With(id, NewMovie) = Present \cup {id} /\ With(id, NewMovie)[id] = NewMovie
        /\ \A i \in Present \ {id} : With(id, NewMovie)[i] = movies[i]
    BY DEF With
  <2>2. id \notin Present
    BY DEF CatalogInv, Ordered
  <2> QED BY <2>1, <2>2 DEF Present
<1>2. Ordered'
  BY <1>1 DEF CatalogInv, Ordered
<1>3. \A r \in Requests : req[r].at # "free" => req[r].id # id
  BY DEF CatalogInv, Served, RequestOK
<1>4. Served'
  BY DEF CatalogInv, Served, RequestOK
<1>5. Written' /\ OwnFieldsKept'
  BY <1>1, <1>3 DEF CatalogInv, Written, OwnFieldsKept
<1>6. GoneStaysGone'
  BY <1>1, <1>3 DEF CatalogInv, GoneStaysGone
<1>7. DeletedOnce'
  BY DEF CatalogInv, DeletedOnce
<1> QED BY <1>2, <1>4, <1>5, <1>6, <1>7 DEF CatalogInv

\* A request that becomes another, with nothing said to its client yet.
LEMMA Unanswered ==
    ASSUME CatalogInv, NEW r \in Requests, NEW q,
           req' = [req EXCEPT ![r] = q], UNCHANGED <<movies, used>>,
           RequestOK(q), q.at # "answered", q.at = "read" => q.data = <<>>
    PROVE  CatalogInv'
<1>1. DOMAIN req' = Requests /\ req'[r] = q /\ \A s \in Requests \ {r} : req'[s] = req[s]
  BY DEF CatalogInv, Served
<1>2. Ordered' /\ Present' = Present
  BY DEF CatalogInv, Ordered, Present
<1>3. Served'
  BY <1>1 DEF CatalogInv, Served, RequestOK
<1>4. Written' /\ OwnFieldsKept'
  <2>1. DOMAIN <<>> = {}
    OBVIOUS
  <2>2. Written'
    BY <1>1, <1>2, <2>1 DEF CatalogInv, Written
  <2> QED BY <1>1, <1>2, <2>1, <2>2 DEF CatalogInv, OwnFieldsKept
<1>5. GoneStaysGone'
  BY <1>1, <1>2 DEF CatalogInv, GoneStaysGone
<1>6. DeletedOnce'
  <2>1. NotFound # Deleted
    BY DEF NotFound, Deleted
  <2> QED BY <1>1, <2>1 DEF CatalogInv, DeletedOnce, RequestOK
<1> QED BY <1>2, <1>3, <1>4, <1>5, <1>6 DEF CatalogInv

LEMMA FreeOK == RequestOK(Free)
BY DEF RequestOK, Free, Shape, Phases

LEMMA Arrivals ==
    ASSUME CatalogInv, NEW r \in Requests, NEW id \in Ids, NEW data, Put(r, id, data) \/ Delete(r, id)
    PROVE  CatalogInv'
<1>1. id \in used /\ UNCHANGED <<movies, used>>
  BY DEF Put, Delete
<1>2. CASE Put(r, id, data)
  <2> DEFINE q == [Free EXCEPT !.at = IF data = <<>> THEN "read" ELSE "update",
                               !.op = "put", !.id = id, !.data = data]
  <2>1. req' = [req EXCEPT ![r] = q]
    BY <1>2 DEF Put
  <2>2. /\ Shape(q) /\ q.at = (IF data = <<>> THEN "read" ELSE "update") /\ q.op = "put" /\ q.id = id
        /\ q.data = data /\ q.answer = NotFound
    BY DEF Free, Shape
  <2>3. RequestOK(q)
    <3>1. NotFound # Deleted
      BY DEF NotFound, Deleted
    <3> HIDE DEF q
    <3> QED BY <1>1, <2>2, <3>1 DEF RequestOK, Phases
  <2> HIDE DEF q
  <2> QED BY <1>1, <2>1, <2>2, <2>3, Unanswered
<1>3. CASE Delete(r, id)
  <2> DEFINE q == [Free EXCEPT !.at = "delete", !.op = "delete", !.id = id]
  <2>1. req' = [req EXCEPT ![r] = q]
    BY <1>3 DEF Delete
  <2>2. Shape(q) /\ q.at = "delete" /\ q.op = "delete" /\ q.id = id /\ q.answer = NotFound
    BY DEF Free, Shape
  <2>3. RequestOK(q)
    <3> HIDE DEF q
    <3> QED BY <1>1, <2>2 DEF RequestOK, Phases
  <2> HIDE DEF q
  <2> QED BY <1>1, <2>1, <2>2, <2>3, Unanswered
<1> QED BY <1>2, <1>3

LEMMA Leaving == ASSUME CatalogInv, NEW r \in Requests, Leave(r) PROVE CatalogInv'
<1>1. req' = [req EXCEPT ![r] = Free] /\ UNCHANGED <<movies, used>> /\ Free.at = "free"
  BY DEF Leave, Free
<1> QED BY <1>1, FreeOK, Unanswered

\* An update is done: only its own phase changes, and the same fields of those
\* that did theirs before are overtaken.
SameBut(q, p) ==
    /\ Shape(q) /\ q.op = p.op /\ q.id = p.id /\ q.data = p.data /\ q.answer = p.answer

LEMMA Overtaking ==
    ASSUME CatalogInv, NEW r \in Requests, UpdateOne(r)
    PROVE  /\ DOMAIN req' = Requests
           /\ SameBut(req'[r], req[r]) /\ req'[r].at = "read"
           /\ \A s \in Requests \ {r} :
                /\ SameBut(req'[s], req[s]) /\ req'[s].at = req[s].at
                /\ req[s].overtaken \subseteq req'[s].overtaken
                /\ (req[s].op = "put" /\ req[s].id = req[r].id /\ req[s].at # "update") =>
                       DOMAIN req[r].data \subseteq req'[s].overtaken
<1> DEFINE o == Overtake(req[r].id, DOMAIN req[r].data)
<1>1. req' = [o EXCEPT ![r].at = "read"] /\ req[r].at = "update"
  BY DEF UpdateOne
<1>2. DOMAIN o = Requests /\ o[r] = req[r]
  BY <1>1 DEF Overtake
<1>3. ASSUME NEW s \in Requests
      PROVE  /\ SameBut(o[s], req[s]) /\ o[s].at = req[s].at /\ req[s].overtaken \subseteq o[s].overtaken
             /\ (req[s].op = "put" /\ req[s].id = req[r].id /\ req[s].at # "update") =>
                    DOMAIN req[r].data \subseteq o[s].overtaken
  <2>1. Shape(req[s])
    BY DEF CatalogInv, Served, RequestOK
  <2>2. CASE req[s].op = "put" /\ req[s].id = req[r].id /\ req[s].at # "update"
    <3>1. o[s] = [req[s] EXCEPT !.overtaken = @ \cup DOMAIN req[r].data]
      BY <2>2 DEF Overtake
    <3> HIDE DEF o
    <3> QED BY <2>1, <3>1 DEF SameBut, Shape
  <2>3. CASE ~(req[s].op = "put" /\ req[s].id = req[r].id /\ req[s].at # "update")
    <3>1. o[s] = req[s]
      BY <2>3 DEF Overtake
    <3> HIDE DEF o
    <3> QED BY <2>1, <2>3, <3>1 DEF SameBut
  <2> QED BY <2>2, <2>3
<1> HIDE DEF o
<1>4. req'[r] = [o[r] EXCEPT !.at = "read"] /\ \A s \in Requests \ {r} : req'[s] = o[s]
  BY <1>1, <1>2
<1>5. DOMAIN req' = Requests
  BY <1>1, <1>2
<1>6. SameBut(req'[r], req[r]) /\ req'[r].at = "read"
  <2>1. Shape(req[r])
    BY DEF CatalogInv, Served, RequestOK
  <2> QED BY <1>2, <1>4, <2>1 DEF SameBut, Shape
<1> QED BY <1>3, <1>4, <1>5, <1>6

LEMMA Updating == ASSUME CatalogInv, NEW r \in Requests, UpdateOne(r) PROVE CatalogInv'
<1> DEFINE id == req[r].id
           data == req[r].data
           m == Changed(IF id \in Present THEN movies[id] ELSE NewMovie, data)
<1>1. /\ req[r].at = "update" /\ used' = used
      /\ movies' = IF id \in Present THEN With(id, m) ELSE movies
  BY DEF UpdateOne, CanSet
<1>2. Present' = Present /\ \A i \in Present \ {id} : movies'[i] = movies[i]
  BY <1>1 DEF With, Present
<1>3. id \in Present => /\ DOMAIN movies'[id] = DOMAIN movies[id] \cup DOMAIN data
                        /\ \A f \in DOMAIN data : movies'[id][f] = data[f]
                        /\ \A f \in DOMAIN movies[id] \ DOMAIN data : movies'[id][f] = movies[id][f]
  <2> SUFFICES ASSUME id \in Present
               PROVE  /\ DOMAIN movies'[id] = DOMAIN movies[id] \cup DOMAIN data
                      /\ \A f \in DOMAIN data : movies'[id][f] = data[f]
                      /\ \A f \in DOMAIN movies[id] \ DOMAIN data : movies'[id][f] = movies[id][f]
    OBVIOUS
  <2>1. movies'[id] = Changed(movies[id], data)
    BY <1>1 DEF With
  <2> QED BY <2>1 DEF Changed, SetFields
<1>4. Ordered'
  BY <1>1, <1>2, <1>3 DEF CatalogInv, Ordered
<1>5. Served'
  <2>1. \A s \in Requests : RequestOK(req'[s])
    <3> TAKE s \in Requests
    <3>1. SameBut(req'[s], req[s]) /\ (req'[s].at = req[s].at \/ (s = r /\ req'[s].at = "read"))
      BY Overtaking
    <3>2. RequestOK(req[s]) /\ RequestOK(req[r])
      BY DEF CatalogInv, Served
    <3> QED BY <1>1, <3>1, <3>2 DEF RequestOK, SameBut, Phases
  <2>2. DOMAIN req' = Requests
    BY Overtaking
  <2> QED BY <1>1, <2>1, <2>2 DEF Served, RequestOK
<1>6. OwnFieldsKept'
  <2> SUFFICES ASSUME NEW s \in Requests, req'[s].op = "put", req'[s].at \in {"read", "answered"},
                      NEW f \in DOMAIN req'[s].data \ req'[s].overtaken
               PROVE  /\ req'[s].id \in Present => movies'[req'[s].id][f] = req'[s].data[f]
                      /\ req'[s].answer # NotFound => req'[s].answer[f] = req'[s].data[f]
    BY <1>2 DEF OwnFieldsKept
  <2>1. SameBut(req'[s], req[s])
    BY Overtaking
  <2>2. CASE s = r
    <3>1. req[r].answer = NotFound
      BY <1>1 DEF CatalogInv, Served, RequestOK
    <3> QED BY <1>3, <2>1, <2>2, <3>1 DEF SameBut
  <2>3. CASE s # r
    <3>1. /\ req'[s].at = req[s].at /\ req[s].overtaken \subseteq req'[s].overtaken
          /\ req[s].id = id => DOMAIN data \subseteq req'[s].overtaken
      BY <2>1, <2>3, Overtaking DEF SameBut
    <3>2. /\ req[s].id \in Present => movies[req[s].id][f] = req[s].data[f]
          /\ req[s].answer # NotFound => req[s].answer[f] = req[s].data[f]
      BY <2>1, <3>1 DEF SameBut, CatalogInv, OwnFieldsKept
    <3>3. req[s].id = id /\ id \in Present => f \in DOMAIN movies[id] \ DOMAIN data
      BY <2>1, <3>1 DEF SameBut, CatalogInv, Written
    <3>4. req[s].id \in Present => movies'[req[s].id][f] = movies[req[s].id][f]
      BY <1>2, <1>3, <3>3
    <3> QED BY <2>1, <3>2, <3>4 DEF SameBut
  <2> QED BY <2>2, <2>3
<1>7. GoneStaysGone'
  <2> SUFFICES ASSUME NEW s \in Requests, req'[s].at = "answered", req'[s].answer \in {NotFound, Deleted}
               PROVE  req'[s].id \notin Present
    BY <1>2 DEF GoneStaysGone, NotFound, Deleted
  <2>1. SameBut(req'[s], req[s]) /\ req'[s].at = req[s].at
    BY Overtaking
  <2> QED BY <2>1 DEF SameBut, CatalogInv, GoneStaysGone
<1>8. DeletedOnce'
  <2>1. \A s \in Requests : SameBut(req'[s], req[s])
    BY Overtaking
  <2> QED BY <2>1 DEF SameBut, CatalogInv, DeletedOnce, Deleted
<1>9. Written'
  <2> SUFFICES ASSUME NEW s \in Requests, req'[s].op = "put", req'[s].at \in {"read", "answered"},
                      req'[s].id \in Present
               PROVE  DOMAIN req'[s].data \subseteq DOMAIN movies'[req'[s].id]
    BY <1>2 DEF Written
  <2>1. SameBut(req'[s], req[s]) /\ (s # r => req'[s].at = req[s].at)
    BY Overtaking
  <2>2. CASE s = r
    BY <1>3, <2>1, <2>2 DEF SameBut
  <2>3. CASE s # r
    <3>1. DOMAIN req[s].data \subseteq DOMAIN movies[req[s].id]
      BY <2>1, <2>3 DEF SameBut, CatalogInv, Written
    <3>2. DOMAIN movies[req[s].id] \subseteq DOMAIN movies'[req[s].id]
      BY <1>2, <1>3, <2>1 DEF SameBut
    <3> QED BY <2>1, <3>1, <3>2 DEF SameBut
  <2> QED BY <2>2, <2>3
<1> QED BY <1>4, <1>5, <1>6, <1>7, <1>8, <1>9 DEF CatalogInv

\* A request is answered.
LEMMA Answering ==
    ASSUME CatalogInv, NEW r \in Requests, NEW answer, req' = Finish(r, answer)
    PROVE  /\ DOMAIN req' = Requests /\ \A s \in Requests \ {r} : req'[s] = req[s]
           /\ Shape(req'[r]) /\ req'[r].at = "answered" /\ req'[r].answer = answer
           /\ req'[r].op = req[r].op /\ req'[r].id = req[r].id /\ req'[r].data = req[r].data
           /\ req'[r].overtaken = req[r].overtaken
<1>1. Shape(req[r]) /\ DOMAIN req = Requests
  BY DEF CatalogInv, Served, RequestOK
<1>2. DOMAIN req' = Requests /\ \A s \in Requests \ {r} : req'[s] = req[s]
  BY <1>1 DEF Finish
<1>3. req'[r] = [[req[r] EXCEPT !.at = "answered"] EXCEPT !.answer = answer]
  BY <1>1 DEF Finish
<1> QED BY <1>1, <1>2, <1>3 DEF Shape

LEMMA Reading == ASSUME CatalogInv, NEW r \in Requests, ReadBack(r) PROVE CatalogInv'
<1> DEFINE answer == Found(req[r].id)
<1>1. req[r].at = "read" /\ req' = Finish(r, answer) /\ movies' = movies /\ used' = used
  BY DEF ReadBack
<1>2. RequestOK(req[r]) /\ req[r].op = "put"
  BY <1>1 DEF CatalogInv, Served, RequestOK
<1>3. answer = (IF req[r].id \in Present THEN movies[req[r].id] ELSE NotFound)
  BY DEF Found
<1>4. answer # Deleted /\ (answer = NotFound => req[r].id \notin Present)
  <2>1. NotFound # Deleted
    BY DEF NotFound, Deleted
  <2> QED BY <1>3, <2>1, MovieIsThere DEF CatalogInv
<1> HIDE DEF answer
<1>5. Present' = Present /\ Ordered'
  BY <1>1 DEF CatalogInv, Ordered, Present
<1>6. Served'
  <2>1. RequestOK(req'[r])
    BY <1>1, <1>2, <1>4, Answering DEF RequestOK, Phases
  <2>2. \A s \in Requests : RequestOK(req'[s])
    BY <1>1, <2>1, Answering DEF CatalogInv, Served
  <2> QED BY <1>1, <2>2, Answering DEF Served, RequestOK
<1>7. OwnFieldsKept'
  <2>1. \A f \in DOMAIN req[r].data \ req[r].overtaken :
           req[r].id \in Present => movies[req[r].id][f] = req[r].data[f]
    BY <1>1, <1>2 DEF CatalogInv, OwnFieldsKept
  <2>2. \A f \in DOMAIN req[r].data \ req[r].overtaken : answer # NotFound => answer[f] = req[r].data[f]
    BY <1>3, <2>1
  <2> QED BY <1>1, <1>5, <2>1, <2>2, Answering DEF CatalogInv, OwnFieldsKept
<1>8. GoneStaysGone'
  BY <1>1, <1>4, <1>5, Answering DEF CatalogInv, GoneStaysGone
<1>9. DeletedOnce'
  BY <1>1, <1>4, Answering DEF CatalogInv, DeletedOnce
<1>10. Written'
  BY <1>1, <1>5, Answering DEF CatalogInv, Written
<1> QED BY <1>5, <1>6, <1>7, <1>8, <1>9, <1>10 DEF CatalogInv

LEMMA Deleting == ASSUME CatalogInv, NEW r \in Requests, DeleteOne(r) PROVE CatalogInv'
<1> DEFINE answer == DeleteAnswer(req[r].id)
<1>1. /\ req[r].at = "delete" /\ req' = Finish(r, answer) /\ used' = used
      /\ movies' = Restrict(movies, Present \ {req[r].id})
  BY DEF DeleteOne
<1>2. RequestOK(req[r]) /\ req[r].op = "delete"
  BY <1>1 DEF CatalogInv, Served, RequestOK
<1>3. answer = (IF req[r].id \in Present THEN Deleted ELSE NotFound)
  BY DEF DeleteAnswer
<1> HIDE DEF answer
<1>4. Present' = Present \ {req[r].id} /\ \A i \in Present' : movies'[i] = movies[i]
  BY <1>1 DEF Present, Restrict
<1>5. Ordered'
  BY <1>1, <1>4 DEF CatalogInv, Ordered
<1>6. Served'
  <2>1. RequestOK(req'[r])
    BY <1>1, <1>2, Answering DEF RequestOK, Phases
  <2>2. \A s \in Requests : RequestOK(req'[s])
    BY <1>1, <2>1, Answering DEF CatalogInv, Served
  <2> QED BY <1>1, <2>2, Answering DEF Served, RequestOK
<1>7. Written' /\ OwnFieldsKept'
  <2>1. \A s \in Requests : req'[s].op = "put" => req'[s] = req[s]
    BY <1>1, <1>2, Answering
  <2>2. \A i \in Present' : i \in Present /\ movies'[i] = movies[i]
    BY <1>4
  <2>3. Written'
    <3> SUFFICES ASSUME NEW s \in Requests, req'[s].op = "put", req'[s].at \in {"read", "answered"},
                        req'[s].id \in Present'
                 PROVE  DOMAIN req'[s].data \subseteq DOMAIN movies'[req'[s].id]
      BY DEF Written
    <3> QED BY <2>1, <2>2 DEF CatalogInv, Written
  <2>4. OwnFieldsKept'
    <3> SUFFICES ASSUME NEW s \in Requests, req'[s].op = "put", req'[s].at \in {"read", "answered"},
                        NEW f \in DOMAIN req'[s].data \ req'[s].overtaken
                 PROVE  /\ req'[s].id \in Present' => movies'[req'[s].id][f] = req'[s].data[f]
                        /\ req'[s].answer # NotFound => req'[s].answer[f] = req'[s].data[f]
      BY DEF OwnFieldsKept, NotFound
    <3> QED BY <2>1, <2>2 DEF CatalogInv, OwnFieldsKept
  <2> QED BY <2>3, <2>4
<1>8. GoneStaysGone'
  BY <1>1, <1>4, Answering DEF CatalogInv, GoneStaysGone
<1>9. DeletedOnce'
  \* A second answer to a deletion of one movie would have found it.
  <2>1. ASSUME NEW s \in Requests \ {r}, answer = Deleted, req[s].answer = Deleted
        PROVE  req[r].id # req[s].id
    <3>1. NotFound # Deleted
      BY DEF NotFound, Deleted
    <3>2. req[r].id \in Present /\ req[s].at = "answered"
      BY <1>3, <2>1, <3>1 DEF CatalogInv, Served, RequestOK
    <3> QED BY <2>1, <3>2 DEF CatalogInv, GoneStaysGone
  <2> QED BY <1>1, <2>1, Answering DEF CatalogInv, DeletedOnce
<1> QED BY <1>5, <1>6, <1>7, <1>8, <1>9 DEF CatalogInv

LEMMA CatalogKept == CatalogInv /\ CatalogNext => CatalogInv'
<1> SUFFICES ASSUME CatalogInv, CatalogNext PROVE CatalogInv'
  OBVIOUS
<1>1. CASE CreateMovie
  BY <1>1, Creation
<1>2. CASE \E r \in Requests : UpdateOne(r) \/ ReadBack(r) \/ DeleteOne(r) \/ Leave(r)
  BY <1>2, Updating, Reading, Deleting, Leaving
<1>3. CASE \E r \in Requests, id \in Ids, data \in Updates \cup {<<>>} : Put(r, id, data) \/ Delete(r, id)
  BY <1>3, Arrivals
<1> QED BY <1>1, <1>2, <1>3 DEF CatalogNext

LEMMA CatalogUnchanged == CatalogInv /\ UNCHANGED catalog => CatalogInv'
BY DEF CatalogInv, catalog, Ordered, Served, RequestOK, Written, OwnFieldsKept, GoneStaysGone, DeletedOnce, Present

----------------------------------------------------------------------------
(* The pages.                                                              *)

\* The gateway's calls: the items first, and the movies last.
LEMMA Order == Then("join") = "items" /\ Then("items") = "names" /\ Then("names") = "titles" /\ Then("titles") = "enrich"
BY DEF Then, CallOrder

LEMMA CatalogMoves ==
    ASSUME CatalogInv, CatalogNext
    PROVE  used \subseteq used' /\ used' \subseteq Ids /\ \A id \in used : id \in Present' => id \in Present
<1>1. Ordered'
  BY CatalogKept DEF CatalogInv
<1>2. CASE CreateMovie
  BY <1>1, <1>2 DEF CreateMovie, With, Present, Ordered
<1>3. CASE \E r \in Requests : UpdateOne(r)
  BY <1>1, <1>3 DEF UpdateOne, CanSet, With, Present, Ordered
<1>4. CASE \E r \in Requests : DeleteOne(r)
  BY <1>1, <1>4 DEF DeleteOne, Restrict, Present, Ordered
<1>5. CASE UNCHANGED <<movies, used>>
  BY <1>1, <1>5 DEF Present, Ordered
<1> QED BY <1>2, <1>3, <1>4, <1>5 DEF CatalogNext, ReadBack, Leave, Delete, Put

LEMMA PagesInitially == PagesInit => PagesInv
<1> SUFFICES ASSUME PagesInit PROVE PagesInv
  OBVIOUS
<1>1. CatalogInv
  BY CatalogInitially DEF PagesInit
<1>2. Peopled
  BY DEF PagesInit, Peopled
<1>3. /\ DOMAIN page = PageFields /\ page.at = "closed" /\ page.cards = {} /\ page.got = {} /\ page.names = {}
      /\ DOMAIN page.movies = {} /\ DOMAIN page.titles = {}
  BY DEF PagesInit, Closed, PageFields
<1>4. Read /\ Joined /\ Remembered
  BY <1>3 DEF Read, IsMap, Joined, Remembered, OnItsWay
<1>5. AuthorsAreNamed /\ UntitledIsGone /\ TitlesWereTrue
  BY <1>3 DEF AuthorsAreNamed, UntitledIsGone, TitlesWereTrue
<1> QED BY <1>1, <1>2, <1>4, <1>5 DEF PagesInv

LEMMA CatalogStepKept == ASSUME PagesInv, CatalogStep PROVE PagesInv'
<1>1. /\ used \subseteq used' /\ used' \subseteq Ids /\ CatalogInv'
      /\ \A id \in Mentioned : id \in Present' => id \in Present
  <2>1. CatalogInv' /\ Ordered' /\ used \subseteq used' /\ used' \subseteq Ids
        /\ \A id \in used : id \in Present' => id \in Present
    BY CatalogMoves, CatalogKept DEF PagesInv, CatalogStep, CatalogInv
  <2>2. Bogus \notin Present'
    BY <2>1 DEF Ordered
  <2> QED BY <2>1, <2>2 DEF Mentioned
<1>2. UNCHANGED <<users, reviews, selected, page>>
  BY DEF CatalogStep
<1>3. Mentioned \subseteq Mentioned' /\ \A f : IsMap(f) => IsMap(f)'
  BY <1>1 DEF Mentioned, IsMap, NotFound
<1>4. Peopled'
  BY <1>1, <1>2, <1>3 DEF PagesInv, Peopled
<1>5. Read'
  BY <1>1, <1>2, <1>3 DEF PagesInv, Read, IsMap, NotFound, PageFields
<1>6. Joined'
  BY <1>1, <1>2 DEF PagesInv, Read, Joined
<1>7. held \subseteq held' /\ (OnItsWay => Pairs(movies') \subseteq held')
  BY DEF CatalogStep, Hold, OnItsWay
<1>8. Remembered'
  BY <1>2, <1>7 DEF PagesInv, Remembered, OnItsWay, Pairs
<1>9. AuthorsAreNamed' /\ TitlesWereTrue'
  BY <1>2, <1>7 DEF PagesInv, AuthorsAreNamed, TitlesWereTrue, NotFound, Nothing
<1>10. UntitledIsGone'
  BY <1>1, <1>2 DEF PagesInv, Read, UntitledIsGone, NotFound
<1> QED BY <1>1, <1>4, <1>5, <1>6, <1>8, <1>9, <1>10 DEF PagesInv

\* A step of the page leaves the services alone; it is right when what it has
\* read, what it shows and what the history holds still agree.
Agrees == Read /\ Joined /\ Remembered /\ AuthorsAreNamed /\ UntitledIsGone /\ TitlesWereTrue

LEMMA PageAlone ==
    ASSUME PagesInv, UNCHANGED <<catalog, people, selected>>, Agrees'
    PROVE  PagesInv'
<1>1. CatalogInv'
  BY CatalogUnchanged DEF PagesInv
<1>2. Peopled'
  BY DEF PagesInv, Peopled, people, catalog, Mentioned
<1> QED BY <1>1, <1>2 DEF PagesInv, Agrees

LEMMA ClosedAgrees == ASSUME page' = Closed PROVE Agrees'
<1>1. /\ DOMAIN page' = PageFields /\ page'.at = "closed" /\ page'.cards = {} /\ page'.got = {}
      /\ page'.names = {} /\ DOMAIN page'.movies = {} /\ DOMAIN page'.titles = {}
  BY DEF Closed, PageFields
<1>2. Read' /\ Joined' /\ Remembered'
  BY <1>1 DEF Read, IsMap, Joined, Remembered, OnItsWay
<1>3. AuthorsAreNamed' /\ UntitledIsGone' /\ TitlesWereTrue'
  BY <1>1 DEF AuthorsAreNamed, UntitledIsGone, TitlesWereTrue
<1> QED BY <1>2, <1>3 DEF Agrees

\* Without cards there is nothing to be wrong about.
LEMMA Unshown ==
    ASSUME page.cards' = {}, Read', Joined', Remembered'
    PROVE  Agrees'
BY DEF Agrees, AuthorsAreNamed, UntitledIsGone, TitlesWereTrue

LEMMA MoviesAreMap == ASSUME CatalogInv PROVE IsMap(movies)
<1>1. \A id \in Present : movies[id] # NotFound
  BY MovieIsThere DEF CatalogInv
<1> QED BY <1>1 DEF CatalogInv, Ordered, IsMap, Present

LEMMA Opening == ASSUME PagesInv, NEW kind \in Kinds, Open(kind) PROVE PagesInv'
<1>1. /\ page' = [Closed EXCEPT !.at = "users", !.kind = kind] /\ held' = Pairs(movies)
      /\ UNCHANGED <<catalog, people, selected, failed>>
  BY DEF Open
<1>2. /\ DOMAIN page' = PageFields /\ page'.at = "users" /\ page'.cards = {} /\ page'.got = {}
      /\ page'.names = {} /\ page'.movies = <<>> /\ page'.titles = <<>>
  BY <1>1 DEF Closed, PageFields
<1>3. DOMAIN <<>> = {} /\ Pairs(<<>>) = {}
  BY DEF Pairs
<1>4. Read' /\ Joined'
  BY <1>2, <1>3 DEF Read, IsMap, Joined
<1>5. Remembered'
  BY <1>1, <1>2, <1>3 DEF Remembered, OnItsWay, catalog, Pairs
<1> QED BY <1>1, <1>2, <1>4, <1>5, Unshown, PageAlone

\* The steps of a page on its way, each with what it leaves of the page.
LEMMA ReadingUsers == ASSUME PagesInv, GetUsersMap, UNCHANGED <<catalog, people, selected, held>> PROVE PagesInv'
<1>1. DOMAIN page = PageFields /\ page.cards = {} /\ page.at = "users"
  BY DEF PagesInv, Read, GetUsersMap
<1>2. /\ DOMAIN page' = PageFields /\ page'.at = "movies"
      /\ \A f \in PageFields \ {"at", "users"} : page'[f] = page[f]
  <2>1. CASE page' = [page EXCEPT !.at = "movies", !.users = users]
    BY <1>1, <2>1 DEF PageFields
  <2>2. CASE page' = [page EXCEPT !.at = "movies"]
    BY <1>1, <2>2 DEF PageFields
  <2> QED BY <2>1, <2>2 DEF GetUsersMap
<1>3. UNCHANGED <<page.movies, page.titles, page.names, page.got, page.cards>>
  BY <1>2 DEF PageFields
<1>4. Read'
  BY <1>1, <1>2, <1>3 DEF PagesInv, Read, IsMap, Mentioned, catalog, people
<1>5. Joined'
  BY <1>2 DEF Joined
<1>6. Remembered'
  BY <1>1, <1>2, <1>3 DEF PagesInv, Remembered, OnItsWay, Pairs, catalog
<1> QED BY <1>1, <1>3, <1>4, <1>5, <1>6, Unshown, PageAlone

LEMMA ReadingMovies == ASSUME PagesInv, GetMoviesMap, UNCHANGED <<catalog, people, selected, held>> PROVE PagesInv'
<1>1. DOMAIN page = PageFields /\ page.cards = {} /\ page.at = "movies"
  BY DEF PagesInv, Read, GetMoviesMap
<1>2. /\ DOMAIN page' = PageFields /\ page'.at = "join" /\ page'.movies \in {movies, NoMovies}
      /\ \A f \in PageFields \ {"at", "movies", "whole"} : page'[f] = page[f]
  <2>1. CASE page' = [page EXCEPT !.at = "join", !.movies = movies]
    BY <1>1, <2>1 DEF PageFields
  <2>2. CASE page' = [page EXCEPT !.at = "join", !.movies = NoMovies, !.whole = FALSE]
    BY <1>1, <2>2 DEF PageFields
  <2> QED BY <2>1, <2>2 DEF GetMoviesMap
<1>3. UNCHANGED <<page.titles, page.names, page.got, page.cards>>
  BY <1>2 DEF PageFields
<1>4. IsMap(movies) /\ IsMap(NoMovies) /\ Pairs(NoMovies) = {}
  BY MoviesAreMap DEF PagesInv, NoMovies, IsMap, Pairs
<1>5. Read'
  BY <1>1, <1>2, <1>3, <1>4 DEF PagesInv, Read, IsMap, Mentioned, catalog, people
<1>6. Joined'
  BY <1>2 DEF Joined
<1>7. Remembered'
  BY <1>1, <1>2, <1>3, <1>4 DEF PagesInv, Remembered, OnItsWay, Pairs, catalog
<1> QED BY <1>1, <1>3, <1>5, <1>6, <1>7, Unshown, PageAlone

LEMMA Joining == ASSUME PagesInv, Join, UNCHANGED <<catalog, people, selected, held>> PROVE PagesInv'
<1>1. DOMAIN page = PageFields /\ page.cards = {} /\ page.at = "join"
  BY DEF PagesInv, Read, Join
<1>2. CASE page' = [page EXCEPT !.at = Then("join")]
  <2>1. /\ DOMAIN page' = PageFields /\ page'.at = "items"
        /\ \A f \in PageFields \ {"at"} : page'[f] = page[f]
    BY <1>1, <1>2, Order DEF PageFields
  <2>2. UNCHANGED <<page.movies, page.titles, page.names, page.got, page.cards>>
    BY <2>1 DEF PageFields
  <2>3. Read'
    BY <1>1, <2>1, <2>2 DEF PagesInv, Read, IsMap, Mentioned, catalog, people
  <2>4. Joined'
    BY <2>1 DEF Joined
  <2>5. Remembered'
    BY <1>1, <2>1, <2>2 DEF PagesInv, Remembered, OnItsWay, Pairs, catalog
  <2> QED BY <1>1, <2>2, <2>3, <2>4, <2>5, Unshown, PageAlone
<1>3. CASE page' = Closed
  BY <1>3, ClosedAgrees, PageAlone
<1> QED BY <1>2, <1>3 DEF Join

LEMMA GettingItems ==
    ASSUME PagesInv, UNCHANGED <<catalog, people, selected, held>>, page.at = "items",
           NEW got \in Items(page.kind), page' = [page EXCEPT !.at = Then("items"), !.got = got]
    PROVE  PagesInv'
<1>1. DOMAIN page = PageFields /\ page.cards = {}
  BY DEF PagesInv, Read
<1>2. /\ DOMAIN page' = PageFields /\ page'.at = "names" /\ page'.got = got
      /\ \A f \in PageFields \ {"at", "got"} : page'[f] = page[f]
  BY <1>1, Order DEF PageFields
<1>3. UNCHANGED <<page.movies, page.titles, page.names, page.cards>>
  BY <1>2 DEF PageFields
<1>4. got \subseteq reviews
  BY DEF Items
<1>5. Read'
  BY <1>1, <1>2, <1>3, <1>4 DEF PagesInv, Peopled, Read, IsMap, Mentioned, catalog, people
<1>6. Joined'
  BY <1>2 DEF Joined
<1>7. Remembered'
  BY <1>1, <1>2, <1>3 DEF PagesInv, Remembered, OnItsWay, Pairs, catalog
<1> QED BY <1>1, <1>3, <1>5, <1>6, <1>7, Unshown, PageAlone

LEMMA GettingNames ==
    ASSUME PagesInv, UNCHANGED <<catalog, people, selected, held>>, page.at = "names",
           page' = [page EXCEPT !.at = Then("names"), !.names = users]
    PROVE  PagesInv'
<1>1. DOMAIN page = PageFields /\ page.cards = {}
  BY DEF PagesInv, Read
<1>2. /\ DOMAIN page' = PageFields /\ page'.at = "titles" /\ page'.names = users
      /\ \A f \in PageFields \ {"at", "names"} : page'[f] = page[f]
  BY <1>1, Order DEF PageFields
<1>3. UNCHANGED <<page.movies, page.titles, page.got, page.cards>>
  BY <1>2 DEF PageFields
<1>4. Read'
  BY <1>1, <1>2, <1>3 DEF PagesInv, Peopled, Read, IsMap, Mentioned, catalog, people
<1>5. Joined'
  BY <1>2, <1>3 DEF PagesInv, Read, Joined
<1>6. Remembered'
  BY <1>1, <1>2, <1>3 DEF PagesInv, Remembered, OnItsWay, Pairs, catalog
<1> QED BY <1>1, <1>3, <1>4, <1>5, <1>6, Unshown, PageAlone

LEMMA GettingTitles ==
    ASSUME PagesInv, UNCHANGED <<catalog, people, selected, held>>, page.at = "titles",
           page' = [page EXCEPT !.at = Then("titles"), !.titles = movies]
    PROVE  PagesInv'
<1>1. DOMAIN page = PageFields /\ page.cards = {}
  BY DEF PagesInv, Read
<1>2. /\ DOMAIN page' = PageFields /\ page'.at = "enrich" /\ page'.titles = movies
      /\ \A f \in PageFields \ {"at", "titles"} : page'[f] = page[f]
  BY <1>1, Order DEF PageFields
<1>3. UNCHANGED <<page.movies, page.names, page.got, page.cards>>
  BY <1>2 DEF PageFields
<1>4. IsMap(movies)
  BY MoviesAreMap DEF PagesInv
<1>5. Read'
  BY <1>1, <1>2, <1>3, <1>4 DEF PagesInv, Read, IsMap, Mentioned, catalog, people
<1>6. Joined'
  BY <1>2, <1>3 DEF PagesInv, Joined, Present, catalog
<1>7. Remembered'
  BY <1>1, <1>2, <1>3 DEF PagesInv, Remembered, OnItsWay, Pairs, catalog
<1> QED BY <1>1, <1>3, <1>5, <1>6, <1>7, Unshown, PageAlone

LEMMA Getting == ASSUME PagesInv, GetJson, UNCHANGED <<catalog, people, selected, held>> PROVE PagesInv'
<1>1. CASE page' = Closed
  BY <1>1, ClosedAgrees, PageAlone
<1>2. CASE page.at = "items" /\ page' # Closed
  <2>1. PICK got \in Items(page.kind) : page' = [page EXCEPT !.at = Then("items"), !.got = got]
    BY <1>2 DEF GetJson
  <2> QED BY <1>2, <2>1, GettingItems
<1>3. CASE page.at = "names" /\ page' # Closed
  <2>1. page' = [page EXCEPT !.at = Then("names"), !.names = users]
    BY <1>3 DEF GetJson
  <2> QED BY <1>3, <2>1, GettingNames
<1>4. CASE page.at = "titles" /\ page' # Closed
  <2>1. page' = [page EXCEPT !.at = Then("titles"), !.titles = movies]
    BY <1>4 DEF GetJson
  <2> QED BY <1>4, <2>1, GettingTitles
<1> QED BY <1>1, <1>2, <1>3, <1>4 DEF GetJson

\* What a card shows of a movie comes from the maps, and without a title neither has one.
LEMMA TitleIs ==
    ASSUME IsMap(page.movies), IsMap(page.titles), NEW id
    PROVE  /\ Title(id) = NotFound => id \notin DOMAIN page.titles /\ id \notin DOMAIN page.movies
           /\ Title(id) # NotFound => <<id, Title(id)>> \in Pairs(page.movies) \cup Pairs(page.titles)
<1>1. CASE id \in DOMAIN page.titles
  <2>1. Title(id) = page.titles[id]
    BY <1>1 DEF Title
  <2> QED BY <1>1, <2>1 DEF IsMap, Pairs
<1>2. CASE id \notin DOMAIN page.titles /\ id \in DOMAIN page.movies
  <2>1. Title(id) = page.movies[id]
    BY <1>2 DEF Title
  <2> QED BY <1>2, <2>1 DEF IsMap, Pairs
<1>3. CASE id \notin DOMAIN page.titles /\ id \notin DOMAIN page.movies
  <2>1. Title(id) = NotFound
    BY <1>3 DEF Title
  <2> QED BY <1>3, <2>1
<1> QED BY <1>1, <1>2, <1>3

LEMMA Showing == ASSUME PagesInv, Show, UNCHANGED <<catalog, people, selected, held>> PROVE PagesInv'
<1>1. DOMAIN page = PageFields /\ page.at = "enrich" /\ IsMap(page.movies) /\ IsMap(page.titles)
  BY DEF PagesInv, Read, Show
<1> DEFINE cards == {[user |-> Name(x.user), item |-> x.item, movie |-> Title(x.item)] : x \in page.got}
<1>2. page' = [Closed EXCEPT !.at = "shown", !.kind = page.kind, !.whole = page.whole,
                             !.movies = page.movies, !.cards = cards]
  BY DEF Show
<1>3. /\ DOMAIN page' = PageFields /\ page'.at = "shown" /\ page'.cards = cards
      /\ page'.movies = page.movies /\ page'.titles = <<>> /\ page'.names = {} /\ page'.got = {}
  <2> HIDE DEF cards
  <2> QED BY <1>2 DEF Closed, PageFields
<1>4. ASSUME NEW c \in page'.cards
      PROVE  /\ c.user # Nothing /\ c.item \in Mentioned
             /\ c.movie = NotFound => c.item \notin Present
             /\ c.movie # NotFound => <<c.item, c.movie>> \in held
  <2>1. PICK x \in page.got : c = [user |-> Name(x.user), item |-> x.item, movie |-> Title(x.item)]
    BY <1>3, <1>4
  <2>2. x.user \in page.names /\ x.item \in Mentioned /\ page.names \subseteq Users
    BY <1>1 DEF PagesInv, Read, Joined
  <2>3. Name(x.user) = x.user /\ x.user # Nothing
    BY <2>2 DEF Name, Nothing
  <2>4. Title(x.item) = NotFound => x.item \notin Present
    BY <1>1, TitleIs DEF PagesInv, Joined
  <2>5. Title(x.item) # NotFound => <<x.item, Title(x.item)>> \in held
    BY <1>1, TitleIs DEF PagesInv, Remembered, OnItsWay
  <2> QED BY <2>1, <2>2, <2>3, <2>4, <2>5
<1> HIDE DEF cards
<1>5. UNCHANGED <<movies, used, users, Mentioned, Present, held>>
  BY DEF catalog, people, Mentioned, Present
<1>6. Read'
  <2>1. DOMAIN <<>> = {}
    OBVIOUS
  <2> QED BY <1>1, <1>3, <1>4, <1>5, <2>1 DEF IsMap, Read, NotFound
<1>7. Joined' /\ Remembered'
  BY <1>3 DEF Joined, Remembered, OnItsWay
<1>8. AuthorsAreNamed' /\ UntitledIsGone' /\ TitlesWereTrue'
  BY <1>4, <1>5 DEF AuthorsAreNamed, UntitledIsGone, TitlesWereTrue, NotFound, Nothing
<1> QED BY <1>6, <1>7, <1>8, PageAlone DEF Agrees

LEMMA Recommending == ASSUME PagesInv, Recommend, UNCHANGED <<catalog, people, selected, held>> PROVE PagesInv'
<1>1. /\ DOMAIN page = PageFields /\ page.at = "join" /\ page.kind = "recs"
      /\ IsMap(page.movies) /\ IsMap(page.titles)
  BY DEF PagesInv, Read, Recommend
<1>2. CASE page' = Closed
  BY <1>2, ClosedAgrees, PageAlone
<1>3. CASE page' # Closed
  <2>1. PICK got \in Items("recs") :
           page' = [page EXCEPT !.at = "shown",
              !.cards = {[user |-> Nothing, item |-> x.item, movie |-> Title(x.item)] : x \in got}]
    BY <1>3 DEF Recommend
  <2> DEFINE cards == {[user |-> Nothing, item |-> x.item, movie |-> Title(x.item)] : x \in got}
  <2>2. /\ DOMAIN page' = PageFields /\ page'.at = "shown" /\ page'.cards = cards
        /\ \A f \in PageFields \ {"at", "cards"} : page'[f] = page[f]
    <3>1. page' = [page EXCEPT !.at = "shown", !.cards = cards]
      BY <2>1
    <3> HIDE DEF cards
    <3> QED BY <1>1, <3>1 DEF PageFields
  <2>3. UNCHANGED <<page.kind, page.movies, page.titles, page.names, page.got>>
    BY <2>2 DEF PageFields
  <2>4. got \subseteq reviews
    BY DEF Items
  <2>5. ASSUME NEW c \in page'.cards
        PROVE  /\ c.item \in Mentioned
               /\ c.movie = NotFound => c.item \notin DOMAIN page.movies
               /\ c.movie # NotFound => <<c.item, c.movie>> \in held
    <3>1. PICK x \in got : c = [user |-> Nothing, item |-> x.item, movie |-> Title(x.item)]
      BY <2>2, <2>5
    <3>2. x.item \in Mentioned
      BY <2>4 DEF PagesInv, Peopled
    <3>3. Title(x.item) = NotFound => x.item \notin DOMAIN page.movies
      BY <1>1, TitleIs
    <3>4. Title(x.item) # NotFound => <<x.item, Title(x.item)>> \in held
      BY <1>1, TitleIs DEF PagesInv, Remembered, OnItsWay
    <3> QED BY <3>1, <3>2, <3>3, <3>4
  <2> HIDE DEF cards
  <2>6. UNCHANGED <<movies, used, users, Mentioned, Present, held>>
    BY DEF catalog, people, Mentioned, Present
  <2>7. Read'
    BY <1>1, <2>2, <2>3, <2>5, <2>6 DEF PagesInv, IsMap, Read, NotFound
  <2>8. Joined' /\ Remembered'
    BY <2>2 DEF Joined, Remembered, OnItsWay
  <2>9. AuthorsAreNamed' /\ UntitledIsGone' /\ TitlesWereTrue'
    BY <1>1, <2>3, <2>5, <2>6 DEF AuthorsAreNamed, UntitledIsGone, TitlesWereTrue, NotFound
  <2> QED BY <2>7, <2>8, <2>9, PageAlone DEF Agrees
<1> QED BY <1>2, <1>3

\* A click on a movie, and what happens elsewhere.
LEMMA Choosing == ASSUME PagesInv, Choose PROVE PagesInv'
<1>1. UNCHANGED <<catalog, people, page, held>> /\ selected' \in Selectable
  BY DEF Choose
<1>2. selected' \in Mentioned
  BY <1>1 DEF PagesInv, Read, IsMap, Mentioned, Selectable
<1>3. CatalogInv'
  BY <1>1, CatalogUnchanged DEF PagesInv
<1>4. Peopled'
  BY <1>1, <1>2 DEF PagesInv, Peopled, people, catalog, Mentioned
<1>5. UNCHANGED <<movies, used, users, Present, Mentioned>>
  BY <1>1 DEF catalog, people, Present, Mentioned
<1>6. Read' /\ Joined' /\ Remembered'
  BY <1>1, <1>5 DEF PagesInv, Read, IsMap, NotFound, PageFields, Joined, Remembered, OnItsWay, Pairs
<1>7. AuthorsAreNamed' /\ UntitledIsGone' /\ TitlesWereTrue'
  BY <1>1, <1>5 DEF PagesInv, AuthorsAreNamed, UntitledIsGone, TitlesWereTrue, NotFound, Nothing
<1> QED BY <1>3, <1>4, <1>6, <1>7 DEF PagesInv

LEMMA Peopling ==
    ASSUME PagesInv, users \subseteq users', users' \subseteq Users,
           \A x \in reviews' : x.user \in users' /\ x.item \in Mentioned,
           UNCHANGED <<catalog, selected, page, held>>
    PROVE  PagesInv'
<1>1. CatalogInv'
  BY CatalogUnchanged DEF PagesInv
<1>2. UNCHANGED <<movies, used, Present, Mentioned>>
  BY DEF catalog, Present, Mentioned
<1>3. Peopled'
  BY <1>2 DEF PagesInv, Peopled, Nothing
<1>4. Read' /\ Joined' /\ Remembered'
  BY <1>2 DEF PagesInv, Read, IsMap, NotFound, PageFields, Joined, Remembered, OnItsWay, Pairs
<1>5. AuthorsAreNamed' /\ UntitledIsGone' /\ TitlesWereTrue'
  BY <1>2 DEF PagesInv, AuthorsAreNamed, UntitledIsGone, TitlesWereTrue, NotFound, Nothing
<1> QED BY <1>1, <1>3, <1>4, <1>5 DEF PagesInv

LEMMA SigningUp == ASSUME PagesInv, NEW u \in Users, Register(u) PROVE PagesInv'
<1>1. users \subseteq users' /\ users' \subseteq Users
  BY DEF PagesInv, Peopled, Register
<1>2. UNCHANGED <<catalog, reviews, selected, page, held>>
  BY DEF Register
<1> QED BY <1>1, <1>2, Peopling DEF PagesInv, Peopled

LEMMA Posting == ASSUME PagesInv, NEW u \in Users, PostAny(u) \/ Publish(u) PROVE PagesInv'
<1>1. PICK item \in Mentioned : Post(u, item)
  BY DEF PagesInv, Peopled, PostAny, Publish, Mentioned
<1>2. UNCHANGED <<catalog, users, selected, page, held>>
  BY <1>1 DEF Post
<1>3. \A x \in reviews' : x.user \in users /\ x.item \in Mentioned
  BY <1>1 DEF Post, PagesInv, Peopled
<1> QED BY <1>2, <1>3, Peopling DEF PagesInv, Peopled

LEMMA PagesKept == PagesInv /\ [PagesNext]_pagesVars => PagesInv'
<1> SUFFICES ASSUME PagesInv, [PagesNext]_pagesVars PROVE PagesInv'
  OBVIOUS
<1>1. CASE CatalogStep
  BY <1>1, CatalogStepKept
<1>2. CASE PageStep
  BY <1>2, ReadingUsers, ReadingMovies, Joining, Getting, Showing, Recommending DEF PageStep
<1>3. CASE Choose
  BY <1>3, Choosing
<1>4. CASE \E kind \in Kinds : Open(kind)
  BY <1>4, Opening
<1>5. CASE \E u \in Users : Register(u) \/ PostAny(u) \/ Publish(u)
  BY <1>5, SigningUp, Posting
<1>6. CASE UNCHANGED pagesVars
  <2>1. UNCHANGED <<catalog, people, selected, page, held>>
    BY <1>6 DEF pagesVars, catalog, people
  <2> QED BY <2>1, Peopling DEF people, catalog, Mentioned, PagesInv, Peopled
<1> QED BY <1>1, <1>2, <1>3, <1>4, <1>5, <1>6 DEF PagesNext

THEOREM PagesInvariance == PagesSpec => []PagesInv
BY PagesInitially, PagesKept, PTL DEF PagesSpec

\* OwnFieldsKept: two updates of one movie never undo each other's other fields.
THEOREM FieldsAreKept == PagesSpec => []OwnFieldsKept
<1>1. PagesInv => OwnFieldsKept
  BY DEF PagesInv, CatalogInv
<1> QED BY <1>1, PagesInvariance, PTL

\* GoneStaysGone: who was told that a movie is gone does not meet it again.
THEOREM GoneIsGone == PagesSpec => []GoneStaysGone
<1>1. PagesInv => GoneStaysGone
  BY DEF PagesInv, CatalogInv
<1> QED BY <1>1, PagesInvariance, PTL

\* DeletedOnce: of two deletions of one movie one is told that it did it.
THEOREM OneDeletes == PagesSpec => []DeletedOnce
<1>1. PagesInv => DeletedOnce
  BY DEF PagesInv, CatalogInv
<1> QED BY <1>1, PagesInvariance, PTL

\* AuthorsAreNamed: each review of an enriched section has its author's name.
THEOREM NamesAreThere == PagesSpec => []AuthorsAreNamed
<1>1. PagesInv => AuthorsAreNamed
  BY DEF PagesInv
<1> QED BY <1>1, PagesInvariance, PTL

\* UntitledIsGone: what is shown without a title is not in the catalog.
THEOREM TitlesAreThere == PagesSpec => []UntitledIsGone
<1>1. PagesInv => UntitledIsGone
  BY DEF PagesInv
<1> QED BY <1>1, PagesInvariance, PTL

\* TitlesWereTrue: what is shown of a movie, the catalog held meanwhile.
THEOREM TitlesAreTrue == PagesSpec => []TitlesWereTrue
<1>1. PagesInv => TitlesWereTrue
  BY DEF PagesInv
<1> QED BY <1>1, PagesInvariance, PTL
=============================================================================
