----------------------------- MODULE Parts_proofs -----------------------------
(***************************************************************************)
(* What the pure parts of Inputs promise, for every input: loops over      *)
(* lists of any length, where the model checker goes through short ones.   *)
(* A loop is a recursive function (the steps of the loop); Iterates says   *)
(* that there is one, and Upto is the induction over its turns.            *)
(***************************************************************************)
EXTENDS Inputs, FileSearch_proofs, FiniteSetTheorems, WellFoundedInduction, TLAPS

-----------------------------------------------------------------------------
(* Induction                                                               *)

LEMMA Least ==
    ASSUME NEW T, T \subseteq Nat, T # {}
    PROVE  \E m \in T : \A n \in T : m <= n
<1> DEFINE R == OpToRel(<, Nat)
<1>1. IsWellFoundedOn(R, Nat)
  BY NatLessThanWellFounded, Zenon
<1>2. \A m, n \in Nat : <<m, n>> \in R <=> m < n
  BY DEF OpToRel
<1> HIDE DEF R
<1>3. PICK m \in T : \A n \in T : ~(<<n, m>> \in R)
  BY <1>1, WFMin
<1>4. m \in Nat /\ \A n \in T : n \in Nat
  OBVIOUS
<1>5. \A n \in T : ~(n < m)
  BY <1>2, <1>3, <1>4
<1> QED
  BY <1>4, <1>5

\* What holds before the loop and is kept by every turn holds all along.
LEMMA Upto ==
    ASSUME NEW N \in Nat, NEW Q, 0 \in Q, \A n \in 1..N : n - 1 \in Q => n \in Q
    PROVE  \A n \in 0..N : n \in Q
<1> SUFFICES ASSUME NEW n \in 0..N, n \notin Q
             PROVE  FALSE
  OBVIOUS
<1> DEFINE T == {k \in 0..N : k \notin Q}
<1>1. T \subseteq Nat /\ n \in T
  OBVIOUS
<1>2. PICK m \in T : \A k \in T : m <= k
  <2> HIDE DEF T
  <2> QED
    BY <1>1, Least
<1>3. m \in 1..N /\ m - 1 \in 0..N /\ m - 1 \notin T
  BY <1>2
<1> QED
  BY <1>2, <1>3

\* st has what a loop of N turns has after each of them.
Iteration(st, N, base, step) ==
    \A n \in 0..N : st[n] = IF n = 0 THEN base ELSE step[<<st[n - 1], n>>]

LEMMA Iterates ==
    ASSUME NEW N \in Nat, NEW S, NEW base \in S, NEW step \in [S \X (1..N) -> S]
    PROVE  \E st \in [0..N -> S] : Iteration(st, N, base, step)
<1> DEFINE Turn(st, n) == IF n = 0 THEN base ELSE step[<<st[n - 1], n>>]
           Good(k) == \E st \in [0..N -> S] : \A n \in 0..k : st[n] = Turn(st, n)
           Q == {k \in 0..N : Good(k)}
<1>1. Good(0)
  <2> DEFINE st == [n \in 0..N |-> base]
  <2>1. st \in [0..N -> S] /\ \A n \in 0..0 : st[n] = Turn(st, n)
    OBVIOUS
  <2> QED
    BY <2>1
<1>2. ASSUME NEW k \in 1..N, Good(k - 1)
      PROVE  Good(k)
  <2>1. PICK st \in [0..N -> S] : \A n \in 0..k - 1 : st[n] = Turn(st, n)
    BY <1>2
  <2> DEFINE next == [n \in 0..N |-> IF n = k THEN Turn(st, n) ELSE st[n]]
  <2>2. Turn(st, k) \in S
    <3>1. k - 1 \in 0..N /\ k # 0
      OBVIOUS
    <3>2. <<st[k - 1], k>> \in S \X (1..N)
      BY <3>1
    <3> QED
      BY <3>1, <3>2
  <2>3. next \in [0..N -> S]
    BY <2>2
  <2>4. ASSUME NEW n \in 0..k
        PROVE  next[n] = Turn(next, n)
    <3>1. n \in 0..N /\ (n # 0 => n - 1 \in 0..N /\ n - 1 # k)
      OBVIOUS
    <3>2. Turn(next, n) = Turn(st, n)
      BY <3>1
    <3>3. n # k => st[n] = Turn(st, n)
      BY <2>1
    <3> QED
      BY <3>1, <3>2, <3>3
  <2> QED
    BY <2>3, <2>4
<1> HIDE DEF Good
<1>3. 0 \in Q /\ \A n \in 1..N : n - 1 \in Q => n \in Q
  BY <1>1, <1>2
<1> HIDE DEF Q
<1>4. \A n \in 0..N : n \in Q
  BY <1>3, Upto
<1>5. Good(N)
  BY <1>4 DEF Q
<1> QED
  BY <1>5 DEF Good, Iteration
-----------------------------------------------------------------------------
(* Scopes                                                                  *)

Contexts(S) == [chain : {<<>>}, scope : [filepaths : SUBSET S, excluded : SUBSET SUBSET S]]

AnyScope(S) == [kind : {"included"}, paths : SUBSET S]
               \cup [kind : {"excluded"}, paths : SUBSET SUBSET S]

\* What a scope does to the context t.
Scoped(t, s, new) ==
    /\ s.kind = "included" => new.scope =
          IF t.scope.filepaths # {} THEN t.scope ELSE [filepaths |-> s.paths, excluded |-> {}]
    /\ s.kind = "excluded" => new.scope = [filepaths |-> t.scope.filepaths, excluded |-> s.paths]

LEMMA AddScopeIs ==
    ASSUME NEW S, NEW t \in Contexts(S), NEW s \in AnyScope(S)
    PROVE  AddScope(t, s) \in Contexts(S) /\ Scoped(t, s, AddScope(t, s))
<1>1. CASE s.kind = "included"
  <2>1. DOMAIN t.chain = {} /\ s.paths \in SUBSET S
    BY <1>1 DEF Contexts, AnyScope
  <2>2. AddScope(t, s) = IF t.scope.filepaths # {} THEN t
                         ELSE [t EXCEPT !.scope = [filepaths |-> s.paths, excluded |-> {}]]
    BY <1>1, <2>1 DEF AddScope, IncludedAddToContext
  <2> QED
    BY <1>1, <2>1, <2>2 DEF Contexts, Scoped
<1>2. CASE s.kind = "excluded"
  <2>1. s.paths \in SUBSET SUBSET S
    BY <1>2 DEF AnyScope
  <2>2. AddScope(t, s) = [t EXCEPT !.scope.excluded = s.paths]
    BY <1>2 DEF AddScope, ExcludedAddToContext
  <2> QED
    BY <1>2, <2>1, <2>2 DEF Contexts, Scoped
<1> QED
  BY <1>1, <1>2 DEF AnyScope

LEMMA ContextSteps ==
    ASSUME NEW S, NEW scopes \in Seq(AnyScope(S)), NEW tmpl \in Contexts(S)
    PROVE  LET f == AddToContextSteps(scopes, tmpl)
           IN  f[0] = tmpl /\ \A n \in 1..Len(scopes) : f[n] = AddScope(f[n - 1], scopes[n])
<1> DEFINE N == Len(scopes)
           step == [p \in Contexts(S) \X (1..N) |-> AddScope(p[1], scopes[p[2]])]
           Turn(st, n) == IF n = 0 THEN tmpl ELSE AddScope(st[n - 1], scopes[n])
<1>1. N \in Nat /\ \A n \in 1..N : scopes[n] \in AnyScope(S)
  OBVIOUS
<1>2. step \in [Contexts(S) \X (1..N) -> Contexts(S)]
  BY <1>1, AddScopeIs
<1>3. PICK st \in [0..N -> Contexts(S)] : Iteration(st, N, tmpl, step)
  <2> HIDE DEF N, step
  <2> QED
    BY <1>1, <1>2, Iterates
<1>4. ASSUME NEW n \in 0..N
      PROVE  st[n] = Turn(st, n)
  <2>1. n # 0 => n \in 1..N /\ <<st[n - 1], n>> \in Contexts(S) \X (1..N)
    BY <1>1, <1>3
  <2> QED
    BY <1>3, <2>1 DEF Iteration
<1>5. st = [n \in 0..N |-> Turn(st, n)]
  BY <1>4
<1>6. \E f : f = [n \in 0..N |-> Turn(f, n)]
  BY <1>5
<1>7. AddToContextSteps(scopes, tmpl) = [n \in 0..N |-> Turn(AddToContextSteps(scopes, tmpl), n)]
  BY <1>6 DEF AddToContextSteps
<1> QED
  BY <1>1, <1>7

LEMMA EngineScopes ==
    ASSUME NEW S, NEW scopes \in ScopeLists(S), NEW files
    PROVE  ScopesAgree(scopes, files)
<1> DEFINE f == AddToContextSteps(scopes, EmptyContext)
           end == AddToContext(scopes, EmptyContext).scope
           In(n, file) == IF scopes[n].kind = "included"
                          THEN IncludedFilterResponse(scopes[n].paths, file)
                          ELSE ExcludedFilterResponse(scopes[n].paths, file)
<1>1. /\ scopes \in Seq(AnyScope(S)) /\ Len(scopes) \in {0, 1, 2}
      /\ Len(scopes) = 2 => scopes[1].kind = "included" /\ scopes[2].kind = "excluded"
  <2>1. /\ scopes \in Seq(AnyScope(S)) /\ Len(scopes) =< 2
        /\ Len(scopes) = 2 => scopes[1].kind = "included" /\ scopes[2].kind = "excluded"
    BY DEF ScopeLists, AnyScope
  <2>2. Len(scopes) \in Nat
    BY <2>1
  <2>3. \A n \in Nat : n =< 2 => n \in {0, 1, 2}
    OBVIOUS
  <2> QED
    BY <2>1, <2>2, <2>3
<1>2. \A n \in 1..Len(scopes) : scopes[n] \in AnyScope(S)
  BY <1>1
<1>3. EmptyContext \in Contexts(S) /\ EmptyContext.scope = [filepaths |-> {}, excluded |-> {}]
  BY DEF EmptyContext, NoScopes, Contexts
<1>4. f[0] = EmptyContext /\ \A n \in 1..Len(scopes) : f[n] = AddScope(f[n - 1], scopes[n])
  BY <1>1, <1>3, ContextSteps
<1>5. end = f[Len(scopes)].scope
  BY DEF AddToContext
<1>6. SUFFICES ASSUME NEW file
               PROVE  (\/ IncludedFilterResponse(end.filepaths, file)
                       \/ ExcludedFilterResponse(end.excluded, file))
                      <=> FilterResponse(scopes, file)
  <2> HIDE DEF end
  <2> QED
    BY DEF ScopesAgree, FilterIncidentsByFilePaths, end
<1>7. FilterResponse(scopes, file) <=> \E n \in 1..Len(scopes) : In(n, file)
  BY DEF FilterResponse
<1>8. CASE Len(scopes) = 0
  <2>1. end.filepaths = {} /\ end.excluded = {}
    BY <1>3, <1>4, <1>5, <1>8
  <2> QED
    BY <1>7, <1>8, <2>1 DEF IncludedFilterResponse, ExcludedFilterResponse
<1>9. CASE Len(scopes) = 1
  <2>1. f[1] = AddScope(EmptyContext, scopes[1]) /\ scopes[1] \in AnyScope(S)
    BY <1>2, <1>4, <1>9
  <2>2. FilterResponse(scopes, file) <=> In(1, file)
    BY <1>7, <1>9
  <2>3. CASE scopes[1].kind = "included"
    <3>1. AddScope(EmptyContext, scopes[1]).scope = [filepaths |-> scopes[1].paths, excluded |-> {}]
      <4> HIDE DEF f, end
      <4> QED
        <5>1. AddScope(EmptyContext, scopes[1]).scope = 
                 IF EmptyContext.scope.filepaths # {} THEN EmptyContext.scope
                 ELSE [filepaths |-> scopes[1].paths, excluded |-> {}]
          <6>1. Scoped(EmptyContext, scopes[1], AddScope(EmptyContext, scopes[1]))
            BY <1>3, <2>1, AddScopeIs
          <6> QED
            BY <2>3, <6>1 DEF Scoped
        <5> QED
          BY <5>1, <1>3
    <3>2. end = [filepaths |-> scopes[1].paths, excluded |-> {}]
      BY <1>5, <1>9, <2>1, <3>1
    <3> QED
      BY <2>2, <2>3, <3>2 DEF ExcludedFilterResponse
  <2>4. CASE scopes[1].kind = "excluded"
    <3>1. AddScope(EmptyContext, scopes[1]).scope = [filepaths |-> {}, excluded |-> scopes[1].paths]
      <4> HIDE DEF f, end
      <4> QED
        <5>1. AddScope(EmptyContext, scopes[1]).scope =
                 [filepaths |-> EmptyContext.scope.filepaths, excluded |-> scopes[1].paths]
          <6>1. Scoped(EmptyContext, scopes[1], AddScope(EmptyContext, scopes[1]))
            BY <1>3, <2>1, AddScopeIs
          <6> QED
            BY <2>4, <6>1 DEF Scoped
        <5> QED
          BY <5>1, <1>3
    <3>2. end = [filepaths |-> {}, excluded |-> scopes[1].paths]
      BY <1>5, <1>9, <2>1, <3>1
    <3> QED
      BY <2>2, <2>4, <3>2 DEF IncludedFilterResponse
  <2> QED
    BY <2>1, <2>3, <2>4 DEF AnyScope
<1>10. CASE Len(scopes) = 2
  <2>1. /\ f[1] = AddScope(EmptyContext, scopes[1]) /\ scopes[1] \in AnyScope(S)
        /\ f[2] = AddScope(f[1], scopes[2]) /\ scopes[2] \in AnyScope(S)
    BY <1>2, <1>4, <1>10
  <2>2. f[1] \in Contexts(S) /\ f[1].scope = [filepaths |-> scopes[1].paths, excluded |-> {}]
    <3> HIDE DEF f, end
    <3>1. scopes[1].kind = "included"
      BY <1>1, <1>10
    <3>2. /\ AddScope(EmptyContext, scopes[1]) \in Contexts(S)
          /\ AddScope(EmptyContext, scopes[1]).scope =
                 IF EmptyContext.scope.filepaths # {} THEN EmptyContext.scope
                 ELSE [filepaths |-> scopes[1].paths, excluded |-> {}]
      <4>1. /\ AddScope(EmptyContext, scopes[1]) \in Contexts(S)
            /\ Scoped(EmptyContext, scopes[1], AddScope(EmptyContext, scopes[1]))
        BY <1>3, <2>1, AddScopeIs
      <4> QED
        BY <3>1, <4>1 DEF Scoped
    <3> QED
      BY <1>3, <2>1, <3>2
  <2>3. f[2].scope = [filepaths |-> scopes[1].paths, excluded |-> scopes[2].paths]
    <3> HIDE DEF f, end
    <3>1. scopes[2].kind = "excluded"
      BY <1>1, <1>10
    <3>2. AddScope(f[1], scopes[2]).scope = [filepaths |-> f[1].scope.filepaths, excluded |-> scopes[2].paths]
      <4>1. f[1] \in Contexts(S) /\ scopes[2] \in AnyScope(S)
        BY <2>1, <2>2
      <4> DEFINE t == f[1]
      <4> HIDE DEF t
      <4>2. Scoped(t, scopes[2], AddScope(t, scopes[2]))
        BY <4>1, AddScopeIs DEF t
      <4> QED
        BY <3>1, <4>2 DEF Scoped, t
    <3> QED
      BY <2>1, <2>2, <3>2
  <2>4. FilterResponse(scopes, file) <=> In(1, file) \/ In(2, file)
    BY <1>7, <1>10
  <2> QED
    BY <1>1, <1>5, <1>10, <2>3, <2>4
<1> QED
  BY <1>1, <1>8, <1>9, <1>10
-----------------------------------------------------------------------------
(* Snippets                                                                *)

CodeTurn(acc, n, start, end, context) ==
    IF acc.scan = "over" THEN acc
    ELSE [snip |-> IF n - 1 - context = end \/ n - 1 + context >= start
                   THEN acc.snip \cup {n - 1} ELSE acc.snip,
          scan |-> IF n - 1 - context = end THEN "over" ELSE "on"]

CodeLoop(f, lines, start, end, context) ==
    /\ f[0] = [snip |-> {}, scan |-> "on"]
    /\ \A n \in 1..lines : f[n] = CodeTurn(f[n - 1], n, start, end, context)

LEMMA CodeLocationIs ==
    ASSUME NEW lines \in Nat, NEW start \in Nat, NEW end \in Nat, NEW context \in Nat
    PROVE  CodeLoop(CodeLocationSteps(lines, start, end, context), lines, start, end, context)
<1> DEFINE C == [snip : SUBSET Int, scan : {"on", "over"}]
           base == [snip |-> {}, scan |-> "on"]
           step == [p \in C \X (1..lines) |-> CodeTurn(p[1], p[2], start, end, context)]
           Turn(st, n) == IF n = 0 THEN base ELSE CodeTurn(st[n - 1], n, start, end, context)
<1>1. ASSUME NEW acc \in C, NEW n \in 1..lines
      PROVE  CodeTurn(acc, n, start, end, context) \in C
  BY DEF CodeTurn
<1>2. step \in [C \X (1..lines) -> C]
  <2> HIDE DEF C
  <2> QED
    BY <1>1
<1>3. PICK st \in [0..lines -> C] : Iteration(st, lines, base, step)
  <2>1. base \in C
    OBVIOUS
  <2> HIDE DEF C, base, step
  <2> QED
    BY <1>2, <2>1, Iterates
<1>4. ASSUME NEW n \in 0..lines
      PROVE  st[n] = Turn(st, n)
  <2> HIDE DEF C
  <2>1. n # 0 => n \in 1..lines /\ <<st[n - 1], n>> \in C \X (1..lines)
    BY <1>3
  <2> QED
    BY <1>3, <2>1 DEF Iteration
<1>5. st = [n \in 0..lines |-> Turn(st, n)]
  BY <1>4
<1>6. \E f : f = [n \in 0..lines |-> Turn(f, n)]
  BY <1>5
<1> DEFINE g == CodeLocationSteps(lines, start, end, context)
<1>7. g = [n \in 0..lines |-> Turn(g, n)]
  BY <1>6 DEF CodeLocationSteps, CodeTurn
<1> HIDE DEF g
<1>8. \A n \in 0..lines : g[n] = Turn(g, n)
  BY <1>7
<1>9. 0 \in 0..lines /\ \A n \in 1..lines : n # 0 /\ n \in 0..lines
  OBVIOUS
<1> QED
  BY <1>8, <1>9 DEF g, CodeLoop

LEMMA SnippetsExact ==
    ASSUME NEW lines \in Nat, NEW start \in Nat, NEW end \in Nat, NEW context \in Nat
    PROVE  SnippetExact(lines, start, end, context)
<1> SUFFICES ASSUME start =< end
             PROVE  getCodeLocation(lines, start, end, context)
                      = {k \in 0..lines - 1 : k >= start - context /\ k =< end + context}
  BY DEF SnippetExact
<1> DEFINE f == CodeLocationSteps(lines, start, end, context)
           Shown(n) == {k \in 0..n - 1 : k >= start - context /\ k =< end + context}
           Q == {n \in 0..lines : f[n].snip = Shown(n) /\ (f[n].scan = "over" <=> n > end + context)}
<1>1. /\ f[0] = [snip |-> {}, scan |-> "on"]
      /\ \A n \in 1..lines : f[n] = CodeTurn(f[n - 1], n, start, end, context)
  <2>1. CodeLoop(f, lines, start, end, context)
    <3> HIDE DEF Q, Shown
    <3> QED
      BY CodeLocationIs
  <2> HIDE DEF f, Q, Shown
  <2> QED
    BY <2>1 DEF CodeLoop
<1> HIDE DEF f
<1>2. 0 \in Q
  <2>1. Shown(0) = {} /\ ~(0 > end + context)
    OBVIOUS
  <2> QED
    BY <1>1, <2>1
<1>3. ASSUME NEW n \in 1..lines, n - 1 \in Q
      PROVE  n \in Q
  <2>1. f[n - 1].snip = Shown(n - 1) /\ (f[n - 1].scan = "over" <=> n - 1 > end + context)
    BY <1>3
  <2>2. f[n] = CodeTurn(f[n - 1], n, start, end, context)
    BY <1>1
  <2>3. CASE n - 1 > end + context
    <3>1. Shown(n) = Shown(n - 1) /\ n > end + context
      BY <2>3
    <3>2. f[n] = f[n - 1]
      BY <2>1, <2>2, <2>3 DEF CodeTurn
    <3> QED
      BY <2>1, <2>3, <3>1, <3>2
  <2>4. CASE ~(n - 1 > end + context)
    <3> DEFINE put == n - 1 - context = end \/ n - 1 + context >= start
    <3>1. /\ f[n].snip = IF put THEN Shown(n - 1) \cup {n - 1} ELSE Shown(n - 1)
          /\ f[n].scan = IF n - 1 - context = end THEN "over" ELSE "on"
      BY <2>1, <2>2, <2>4 DEF CodeTurn
    <3>2. n - 1 - context = end <=> n > end + context
      BY <2>4
    <3>3. put => Shown(n) = Shown(n - 1) \cup {n - 1}
      <4> SUFFICES ASSUME put, NEW k
                   PROVE  k \in Shown(n) <=> k \in Shown(n - 1) \/ k = n - 1
        OBVIOUS
      <4>1. n - 1 >= start - context /\ n - 1 =< end + context /\ n - 1 \in 0..n - 1
        BY <2>4
      <4> QED
        BY <4>1
    <3>4. ~put => Shown(n) = Shown(n - 1)
      OBVIOUS
    <3> QED
      BY <3>1, <3>2, <3>3, <3>4
  <2> QED
    BY <2>3, <2>4
<1> HIDE DEF Q
<1>4. lines \in Q
  BY <1>2, <1>3, Upto
<1> QED
  BY <1>4 DEF Q, getCodeLocation, f
-----------------------------------------------------------------------------
(* Violations                                                              *)

Found(S, F) == [out : Seq(Incidents(S)), count : [F -> Nat]]

Full(out, limit) == limit # 0 /\ Len(out) = limit
SeenIn(out, m) == \E k \in 1..Len(out) : Same(out[k], m)
Snips(acc, m, snips) == snips = 0 \/ acc.count[m.file] # snips

\* What one turn of createViolation does, case by case.
Added(S, acc, m, limit, snips, scope, unselected, new) ==
    /\ Full(acc.out, limit) \/ FilterResponse(scope, m.file) => new = acc
    /\ ~(Full(acc.out, limit) \/ FilterResponse(scope, m.file)) =>
          /\ new.count = IF Snips(acc, m, snips)
                         THEN [acc.count EXCEPT ![m.file] = @ + 1] ELSE acc.count
          /\ m \in unselected \/ SeenIn(acc.out, m) => new.out = acc.out
          /\ ~(m \in unselected \/ SeenIn(acc.out, m)) =>
                \E r \in Incidents(S) :
                    /\ new.out = Append(acc.out, r) /\ Same(m, r)
                    /\ r.place => Snips(acc, m, snips)

LEMMA AddIncidentIs ==
    ASSUME NEW S, NEW F \in SUBSET S, NEW acc \in Found(S, F), NEW m \in Incidents(S),
           m.file \in F, NEW limit \in Nat, NEW snips \in Nat, NEW scope, NEW unselected
    PROVE  LET new == AddIncident(acc, m, limit, snips, scope, unselected)
           IN  new \in Found(S, F) /\ Added(S, acc, m, limit, snips, scope, unselected, new)
<1> DEFINE new == AddIncident(acc, m, limit, snips, scope, unselected)
           stop == Full(acc.out, limit) \/ FilterResponse(scope, m.file)
           skip == m \in unselected \/ SeenIn(acc.out, m)
           snip == Snips(acc, m, snips)
           r == IF snip THEN m ELSE [m EXCEPT !.place = FALSE]
           out == IF skip THEN acc.out ELSE Append(acc.out, r)
           count == IF snip THEN [acc.count EXCEPT ![m.file] = @ + 1] ELSE acc.count
<1>1. new = IF stop THEN acc ELSE [out |-> out, count |-> count]
  BY DEF AddIncident, Full, SeenIn, Snips
<1>2. r \in Incidents(S) /\ Same(m, r)
  BY DEF Incidents, Same
<1>3. r.place => snip
  BY DEF Incidents
<1>4. acc.out \in Seq(Incidents(S)) /\ acc.count \in [F -> Nat]
  BY DEF Found
<1>5. out \in Seq(Incidents(S))
  <2> HIDE DEF r, skip
  <2> QED
    BY <1>2, <1>4
<1>6. count \in [F -> Nat]
  <2> HIDE DEF snip
  <2> QED
    BY <1>4
<1>7. SUFFICES new \in Found(S, F) /\ Added(S, acc, m, limit, snips, scope, unselected, new)
  OBVIOUS
<1> HIDE DEF stop, skip, snip, r, new
<1>9. CASE stop
  BY <1>1, <1>9 DEF stop, Added
<1>8. CASE ~stop
  <2>1. new = [out |-> out, count |-> count]
    BY <1>1, <1>8
  <2>2. new.out = out /\ new.count = count /\ new \in Found(S, F)
    BY <2>1, <1>5, <1>6 DEF Found
  <2>3. skip => new.out = acc.out
    BY <2>2
  <2>4. ~skip => new.out = Append(acc.out, r)
    BY <2>2
  <2> QED
    BY <1>2, <1>3, <1>8, <2>2, <2>3, <2>4 DEF stop, skip, snip, Added
<1> QED
  BY <1>8, <1>9

LEMMA ViolationLoop ==
    ASSUME NEW S, NEW incidents \in Seq(Incidents(S)), NEW limit \in Nat, NEW snips \in Nat,
           NEW scope, NEW unselected,
           NEW F, F = {incidents[i].file : i \in 1..Len(incidents)},
           NEW f, f = ViolationSteps(incidents, limit, snips, scope, unselected)
    PROVE  /\ f[0] = [out |-> <<>>, count |-> [u \in F |-> 0]]
           /\ \A n \in 1..Len(incidents) :
                 f[n] = AddIncident(f[n - 1], incidents[n], limit, snips, scope, unselected)
<1> DEFINE N == Len(incidents)
           base == [out |-> <<>>, count |-> [u \in F |-> 0]]
           C == Found(S, F)
           Add(acc, n) == AddIncident(acc, incidents[n], limit, snips, scope, unselected)
           step == [p \in C \X (1..N) |-> Add(p[1], p[2])]
           Turn(st, n) == IF n = 0 THEN base ELSE Add(st[n - 1], n)
<1>1. N \in Nat /\ F \in SUBSET S /\ \A n \in 1..N : incidents[n] \in Incidents(S) /\ incidents[n].file \in F
  <2>1. N \in Nat /\ \A n \in 1..N : incidents[n] \in Incidents(S)
    OBVIOUS
  <2>2. \A n \in 1..N : incidents[n].file \in S
    BY <2>1 DEF Incidents
  <2> QED
    BY <2>1, <2>2
<1>2. ASSUME NEW acc \in C, NEW n \in 1..N
      PROVE  Add(acc, n) \in C
  BY <1>1, AddIncidentIs
<1>3. step \in [C \X (1..N) -> C]
  <2> HIDE DEF C, N, Add
  <2> QED
    BY <1>2
<1>4. PICK st \in [0..N -> C] : Iteration(st, N, base, step)
  <2>1. base \in C
    BY DEF Found
  <2> HIDE DEF C, N, base, step
  <2> QED
    BY <1>1, <1>3, <2>1, Iterates
<1>5. ASSUME NEW n \in 0..N
      PROVE  st[n] = Turn(st, n)
  <2> HIDE DEF C, Add, base, N
  <2>1. n # 0 => n \in 1..N /\ <<st[n - 1], n>> \in C \X (1..N)
    BY <1>1, <1>4
  <2> QED
    BY <1>4, <2>1 DEF Iteration
<1> DEFINE start == [out |-> <<>>, count |-> [u \in {incidents[i].file : i \in 1..N} |-> 0]]
           Again(h, n) == IF n = 0 THEN start ELSE Add(h[n - 1], n)
<1>6. \E g : g = [n \in 0..N |-> Again(g, n)]
  <2>1. base = start
    OBVIOUS
  <2>2. \A n \in 0..N : st[n] = Again(st, n)
    <3> HIDE DEF base, start, Add, N
    <3> QED
      BY <1>5, <2>1
  <2>3. st = [n \in 0..N |-> Again(st, n)]
    <3> HIDE DEF Again, C, N
    <3> QED
      BY <1>4, <2>2
  <2> QED
    BY <2>3
<1>7. f = [n \in 0..N |-> Turn(f, n)]
  <2>1. f = [n \in 0..N |-> Again(f, n)]
    BY <1>6 DEF ViolationSteps
  <2>2. base = start
    OBVIOUS
  <2> HIDE DEF base, start, Add, N
  <2> QED
    BY <2>1, <2>2
<1>8. \A n \in 0..N : f[n] = Turn(f, n)
  <2> HIDE DEF Turn, N
  <2> QED
    BY <1>7
<1>9. 0 \in 0..N /\ \A n \in 1..N : n # 0 /\ n \in 0..N
  BY <1>1
<1> QED
  BY <1>8, <1>9

Passes(incidents, scope, unselected, i) ==
    ~FilterResponse(scope, incidents[i].file) /\ incidents[i] \notin unselected

Distinct(out) == \A i, k \in 1..Len(out) : i # k => ~Same(out[i], out[k])

\* out[k] is the incident at[k] of the first n.
Drawn(at, out, n, limit, incidents, scope, unselected) ==
    /\ at \in [1..Len(out) -> 1..n]
    /\ \A k \in 1..Len(out) : /\ Passes(incidents, scope, unselected, at[k])
                              /\ Same(incidents[at[k]], out[k])
    /\ \A i, k \in 1..Len(out) : i < k => at[i] < at[k]
    /\ \A i \in 1..n : Passes(incidents, scope, unselected, i) =>
          \/ \E k \in 1..Len(out) : Same(incidents[i], out[k])
          \/ Full(out, limit) /\ \A k \in 1..Len(out) : at[k] < i

ShownIn(out, u) == {k \in 1..Len(out) : out[k].file = u /\ out[k].place}

LEMMA Appended ==
    ASSUME NEW T, NEW s \in Seq(T), NEW x \in T
    PROVE  /\ Append(s, x) \in Seq(T) /\ Len(s) \in Nat /\ Len(Append(s, x)) = Len(s) + 1
           /\ \A k \in 1..Len(s) + 1 : Append(s, x)[k] = IF k = Len(s) + 1 THEN x ELSE s[k]
  OBVIOUS

LEMMA DistinctKept ==
    ASSUME NEW S, NEW out \in Seq(Incidents(S)), NEW m, NEW r \in Incidents(S),
           Distinct(out), ~SeenIn(out, m), Same(m, r)
    PROVE  Distinct(Append(out, r))
<1>1. /\ Len(out) \in Nat /\ Len(Append(out, r)) = Len(out) + 1
      /\ \A k \in 1..Len(out) + 1 : Append(out, r)[k] = IF k = Len(out) + 1 THEN r ELSE out[k]
  BY Appended
<1>2. \A k \in 1..Len(out) : ~Same(out[k], r) /\ ~Same(r, out[k])
  BY DEF SeenIn, Same
<1> DEFINE L == Len(out)
           new == Append(out, r)
<1> HIDE DEF new, L
<1>3. ASSUME NEW i \in 1..L + 1, NEW k \in 1..L + 1, i # k
      PROVE  ~Same(new[i], new[k])
  <2>1. L \in Nat
    BY <1>1 DEF L
  <2>2. CASE i = L + 1
    <3>1. k \in 1..L /\ new[i] = r /\ new[k] = out[k]
      BY <1>1, <1>3, <2>1, <2>2 DEF L, new
    <3> QED
      BY <1>2, <3>1 DEF L
  <2>3. CASE k = L + 1
    <3>1. i \in 1..L /\ new[k] = r /\ new[i] = out[i]
      BY <1>1, <1>3, <2>1, <2>3 DEF L, new
    <3> QED
      BY <1>2, <3>1 DEF L
  <2>4. CASE i # L + 1 /\ k # L + 1
    <3>1. i \in 1..L /\ k \in 1..L /\ new[i] = out[i] /\ new[k] = out[k]
      BY <1>1, <1>3, <2>1, <2>4 DEF L, new
    <3> QED
      BY <1>3, <3>1 DEF L, Distinct
  <2> QED
    BY <2>2, <2>3, <2>4
<1> QED
  BY <1>1, <1>3 DEF L, new, Distinct

LEMMA DrawnSame ==
    ASSUME NEW n \in Nat \ {0}, NEW limit, NEW incidents, NEW scope, NEW unselected, NEW at, NEW out,
           Drawn(at, out, n - 1, limit, incidents, scope, unselected),
           Passes(incidents, scope, unselected, n) =>
               (\E k \in 1..Len(out) : Same(incidents[n], out[k])) \/ Full(out, limit)
    PROVE  Drawn(at, out, n, limit, incidents, scope, unselected)
<1>1. \A k \in 1..Len(out) : at[k] \in 1..n /\ at[k] < n
  BY DEF Drawn
<1>2. at \in [1..Len(out) -> 1..n]
  BY <1>1 DEF Drawn
<1>3. ASSUME NEW i \in 1..n, Passes(incidents, scope, unselected, i)
      PROVE  \/ \E k \in 1..Len(out) : Same(incidents[i], out[k])
             \/ Full(out, limit) /\ \A k \in 1..Len(out) : at[k] < i
  <2>1. CASE i = n
    BY <1>1, <1>3, <2>1
  <2>2. CASE i # n
    <3>1. i \in 1..n - 1
      BY <2>2
    <3> QED
      BY <1>3, <3>1 DEF Drawn
  <2> QED
    BY <2>1, <2>2
<1> QED
  BY <1>2, <1>3 DEF Drawn

LEMMA DrawnMore ==
    ASSUME NEW S, NEW n \in Nat \ {0}, NEW limit, NEW incidents, NEW scope, NEW unselected,
           NEW out \in Seq(Incidents(S)), NEW r \in Incidents(S), NEW at,
           Drawn(at, out, n - 1, limit, incidents, scope, unselected), ~Full(out, limit),
           Passes(incidents, scope, unselected, n), Same(incidents[n], r)
    PROVE  \E b : Drawn(b, Append(out, r), n, limit, incidents, scope, unselected)
<1> DEFINE L == Len(out)
           new == Append(out, r)
           b == [k \in 1..L + 1 |-> IF k = L + 1 THEN n ELSE at[k]]
<1>1. /\ L \in Nat /\ Len(new) = L + 1
      /\ \A k \in 1..L + 1 : new[k] = IF k = L + 1 THEN r ELSE out[k]
  BY Appended
<1> HIDE DEF new, L
<1>2. ASSUME NEW k \in 1..L + 1
      PROVE  \/ k = L + 1 /\ b[k] = n /\ new[k] = r
             \/ k \in 1..L /\ b[k] = at[k] /\ new[k] = out[k] /\ b[k] \in 1..n - 1
  <2>1. CASE k = L + 1
    BY <1>1, <2>1
  <2>2. CASE k # L + 1
    <3>1. k \in 1..L
      BY <1>1, <2>2
    <3>2. at[k] \in 1..n - 1
      BY <3>1 DEF Drawn, L
    <3> QED
      BY <1>1, <2>2, <3>1, <3>2
  <2> QED
    BY <2>1, <2>2
<1>3. b \in [1..L + 1 -> 1..n]
  <2>1. \A k \in 1..L + 1 : b[k] \in 1..n
    BY <1>2
  <2>2. b = [k \in 1..L + 1 |-> b[k]]
    OBVIOUS
  <2> HIDE DEF b
  <2> QED
    BY <2>1, <2>2
<1> HIDE DEF b
<1>4. ASSUME NEW k \in 1..L + 1
      PROVE  Passes(incidents, scope, unselected, b[k]) /\ Same(incidents[b[k]], new[k])
  <2>1. CASE k = L + 1 /\ b[k] = n /\ new[k] = r
    BY <2>1
  <2>2. CASE k \in 1..L /\ b[k] = at[k] /\ new[k] = out[k]
    BY <2>2 DEF Drawn, L
  <2> QED
    BY <1>2, <2>1, <2>2
<1>5. ASSUME NEW i \in 1..L + 1, NEW k \in 1..L + 1, i < k
      PROVE  b[i] < b[k]
  <2>1. i \in 1..L /\ b[i] = at[i] /\ b[i] \in 1..n - 1
    BY <1>1, <1>2, <1>5
  <2>2. CASE k = L + 1 /\ b[k] = n
    BY <2>1, <2>2
  <2>3. CASE k \in 1..L /\ b[k] = at[k]
    BY <1>5, <2>1, <2>3 DEF Drawn, L
  <2> QED
    BY <1>2, <2>2, <2>3
<1>6. ASSUME NEW i \in 1..n, Passes(incidents, scope, unselected, i)
      PROVE  \E k \in 1..L + 1 : Same(incidents[i], new[k])
  <2>1. CASE i = n
    BY <1>1, <2>1
  <2>2. CASE i # n
    <3>1. i \in 1..n - 1
      BY <2>2
    <3>2. PICK k \in 1..L : Same(incidents[i], out[k])
      BY <1>6, <3>1 DEF Drawn, L
    <3>3. k \in 1..L + 1 /\ k # L + 1
      BY <1>1
    <3>4. new[k] = out[k]
      BY <1>1, <3>3
    <3> QED
      BY <3>2, <3>3, <3>4
  <2> QED
    BY <2>1, <2>2
<1> QED
  <2>1. Drawn(b, new, n, limit, incidents, scope, unselected)
    BY <1>1, <1>3, <1>4, <1>5, <1>6 DEF Drawn
  <2> QED
    BY <2>1 DEF new

LEMMA ShownMore ==
    ASSUME NEW S, NEW out \in Seq(Incidents(S)), NEW r \in Incidents(S), NEW u
    PROVE  /\ Cardinality(ShownIn(out, u)) \in Nat
           /\ Cardinality(ShownIn(Append(out, r), u)) \in Nat
           /\ ~(r.file = u /\ r.place) => ShownIn(Append(out, r), u) = ShownIn(out, u)
           /\ Cardinality(ShownIn(Append(out, r), u)) =< Cardinality(ShownIn(out, u)) + 1
<1> DEFINE L == Len(out)
           new == Append(out, r)
           Q(k) == out[k].file = u /\ out[k].place
           R(k) == new[k].file = u /\ new[k].place
           old == {k \in 1..L : Q(k)}
           more == {k \in 1..L + 1 : R(k)}
<1>1. /\ L \in Nat /\ Len(new) = L + 1
      /\ \A k \in 1..L + 1 : new[k] = IF k = L + 1 THEN r ELSE out[k]
  BY Appended
<1>2. ShownIn(out, u) = old /\ ShownIn(new, u) = more
  <2> HIDE DEF new
  <2> QED
    BY <1>1 DEF ShownIn
<1>3. \A k \in 1..L : R(k) <=> Q(k)
  <2> SUFFICES ASSUME NEW k \in 1..L
               PROVE  new[k] = out[k]
    <3> HIDE DEF new
    <3> QED
      OBVIOUS
  <2>1. k \in 1..L + 1 /\ k # L + 1
    BY <1>1
  <2> HIDE DEF new, L
  <2> QED
    BY <1>1, <2>1
<1>4. R(L + 1) <=> r.file = u /\ r.place
  <2>1. new[L + 1] = r
    BY <1>1
  <2> HIDE DEF new
  <2> QED
    BY <2>1
<1> HIDE DEF new, L, Q, R
<1>5. ~R(L + 1) => more = old
  BY <1>1, <1>3
<1>6. R(L + 1) => more = old \cup {L + 1}
  BY <1>1, <1>3
<1>7. IsFiniteSet(old) /\ IsFiniteSet(more)
  <2>1. IsFiniteSet(1..L) /\ IsFiniteSet(1..L + 1)
    BY <1>1, FS_Interval
  <2>2. old \subseteq 1..L /\ more \subseteq 1..L + 1
    OBVIOUS
  <2> HIDE DEF old, more
  <2> QED
    BY <2>1, <2>2, FS_Subset
<1> HIDE DEF old, more
<1>8. Cardinality(old) \in Nat /\ Cardinality(more) \in Nat
  BY <1>7, FS_CardinalityType
<1>9. Cardinality(more) =< Cardinality(old) + 1
  <2>1. CASE R(L + 1)
    <3>1. Cardinality(old \cup {L + 1}) =
             IF L + 1 \in old THEN Cardinality(old) ELSE Cardinality(old) + 1
      BY <1>7, FS_AddElement
    <3>2. more = old \cup {L + 1}
      BY <1>6, <2>1
    <3>3. Cardinality(more) = IF L + 1 \in old THEN Cardinality(old) ELSE Cardinality(old) + 1
      BY <3>1, <3>2, Zenon
    <3> QED
      BY <1>8, <3>3
  <2>2. CASE ~R(L + 1)
    BY <1>5, <1>8, <2>2
  <2> QED
    BY <2>1, <2>2
<1> QED
  BY <1>2, <1>4, <1>5, <1>8, <1>9 DEF new

\* The snippets of every file are counted, and there are not too many.
Counted(acc, F, snips) ==
    snips # 0 => \A u \in F : /\ Cardinality(ShownIn(acc.out, u)) =< acc.count[u]
                              /\ acc.count[u] =< snips

LEMMA CountedKept ==
    ASSUME NEW S, NEW F \in SUBSET S, NEW acc \in Found(S, F), NEW m \in Incidents(S),
           m.file \in F, NEW limit \in Nat, NEW snips \in Nat, NEW scope, NEW unselected, NEW new,
           Added(S, acc, m, limit, snips, scope, unselected, new), Counted(acc, F, snips)
    PROVE  Counted(new, F, snips)
<1> SUFFICES ASSUME snips # 0, NEW u \in F
             PROVE  Cardinality(ShownIn(new.out, u)) =< new.count[u] /\ new.count[u] =< snips
  BY DEF Counted
<1>1. /\ acc.out \in Seq(Incidents(S)) /\ acc.count \in [F -> Nat]
      /\ Cardinality(ShownIn(acc.out, u)) =< acc.count[u] /\ acc.count[u] =< snips
  BY DEF Found, Counted
<1> DEFINE stop == Full(acc.out, limit) \/ FilterResponse(scope, m.file)
           skip == m \in unselected \/ SeenIn(acc.out, m)
           snip == Snips(acc, m, snips)
<1>2. CASE stop
  <2>1. new = acc
    BY <1>2 DEF Added
  <2> QED
    BY <1>1, <2>1
<1>3. CASE ~stop
  <2>1. new.count = IF snip THEN [acc.count EXCEPT ![m.file] = @ + 1] ELSE acc.count
    BY <1>3 DEF Added
  <2>2. skip => new.out = acc.out
    BY <1>3 DEF Added
  <2>3. ~skip => \E r \in Incidents(S) : new.out = Append(acc.out, r) /\ Same(m, r) /\ (r.place => snip)
    BY <1>3 DEF Added
  <2>4. snip <=> acc.count[m.file] # snips
    BY DEF Snips
  <2> HIDE DEF stop, skip, snip
  <2>5. /\ new.count[u] \in Nat /\ acc.count[u] \in Nat
        /\ new.count[u] >= acc.count[u] /\ new.count[u] =< snips
        /\ snip /\ u = m.file => new.count[u] = acc.count[u] + 1
    BY <1>1, <2>1, <2>4
  <2>6. CASE skip
    <3>1. new.out = acc.out
      BY <2>2, <2>6
    <3>2. Cardinality(ShownIn(acc.out, u)) \in Nat
      BY <1>1, ShownMore
    <3> QED
      BY <1>1, <2>5, <3>1, <3>2
  <2>7. CASE ~skip
    <3>1. PICK r \in Incidents(S) : new.out = Append(acc.out, r) /\ Same(m, r) /\ (r.place => snip)
      BY <2>3, <2>7
    <3> DEFINE before == Cardinality(ShownIn(acc.out, u))
               after == Cardinality(ShownIn(new.out, u))
    <3>2. before \in Nat /\ after \in Nat /\ after =< before + 1
      BY <1>1, <3>1, ShownMore
    <3>3. ~(r.file = u /\ r.place) => after = before
      <4>1. ~(r.file = u /\ r.place) => ShownIn(new.out, u) = ShownIn(acc.out, u)
        BY <1>1, <3>1, ShownMore
      <4> QED
        BY <4>1
    <3>4. before =< acc.count[u]
      BY <1>1
    <3>5. r.file = u /\ r.place => snip /\ u = m.file
      BY <3>1 DEF Same
    <3> HIDE DEF before, after
    <3>6. CASE r.file = u /\ r.place
      <4>1. new.count[u] = acc.count[u] + 1
        BY <2>5, <3>5, <3>6
      <4>2. after =< new.count[u]
        BY <2>5, <3>2, <3>4, <4>1
      <4> QED
        BY <2>5, <4>2 DEF after
    <3>7. CASE ~(r.file = u /\ r.place)
      <4>1. after =< new.count[u]
        BY <2>5, <3>2, <3>3, <3>4, <3>7
      <4> QED
        BY <2>5, <4>1 DEF after
    <3> QED
      BY <3>6, <3>7
  <2> QED
    BY <2>6, <2>7
<1> QED
  BY <1>2, <1>3

\* What createViolation has after n of the incidents.
Sound(S, F, acc, n, incidents, limit, snips, scope, unselected) ==
    /\ acc \in Found(S, F)
    /\ Distinct(acc.out)
    /\ limit # 0 => Len(acc.out) =< limit
    /\ \E at : Drawn(at, acc.out, n, limit, incidents, scope, unselected)
    /\ Counted(acc, F, snips)

LEMMA SoundKept ==
    ASSUME NEW S, NEW F \in SUBSET S, NEW incidents, NEW n \in Nat \ {0},
           incidents[n] \in Incidents(S), incidents[n].file \in F,
           NEW limit \in Nat, NEW snips \in Nat, NEW scope, NEW unselected, NEW acc, NEW new,
           Sound(S, F, acc, n - 1, incidents, limit, snips, scope, unselected),
           new = AddIncident(acc, incidents[n], limit, snips, scope, unselected)
    PROVE  Sound(S, F, new, n, incidents, limit, snips, scope, unselected)
<1> DEFINE m == incidents[n]
           stop == Full(acc.out, limit) \/ FilterResponse(scope, m.file)
           skip == m \in unselected \/ SeenIn(acc.out, m)
           Draw(at, out, k) == Drawn(at, out, k, limit, incidents, scope, unselected)
<1>1. /\ acc \in Found(S, F) /\ Distinct(acc.out) /\ (limit # 0 => Len(acc.out) =< limit)
      /\ \E at : Draw(at, acc.out, n - 1)
      /\ Counted(acc, F, snips)
  BY DEF Sound
<1>2. PICK at : Draw(at, acc.out, n - 1)
  BY <1>1
<1>3. new \in Found(S, F) /\ Added(S, acc, m, limit, snips, scope, unselected, new)
  BY <1>1, AddIncidentIs
<1>4. Counted(new, F, snips)
  BY <1>1, <1>3, CountedKept
<1>5. acc.out \in Seq(Incidents(S))
  BY <1>1 DEF Found
<1>6. SUFFICES /\ Distinct(new.out) /\ (limit # 0 => Len(new.out) =< limit)
               /\ \E b : Draw(b, new.out, n)
  BY <1>3, <1>4 DEF Sound
<1>7. CASE (stop \/ skip) /\ new.out = acc.out
  <2>1. Passes(incidents, scope, unselected, n) =>
               (\E k \in 1..Len(acc.out) : Same(incidents[n], acc.out[k])) \/ Full(acc.out, limit)
    BY <1>7 DEF Passes, SeenIn, Same
  <2>2. Draw(at, acc.out, n)
    BY <1>2, <2>1, DrawnSame
  <2> QED
    BY <1>1, <1>7, <2>2
<1>8. CASE ~stop /\ ~skip
  <2>1. PICK r \in Incidents(S) : new.out = Append(acc.out, r) /\ Same(m, r)
    BY <1>3, <1>8 DEF Added
  <2>2. Distinct(new.out)
    BY <1>1, <1>5, <1>8, <2>1, DistinctKept
  <2>3. limit # 0 => Len(new.out) =< limit
    <3>1. Len(new.out) = Len(acc.out) + 1 /\ Len(acc.out) \in Nat
      BY <1>5, <2>1, Appended
    <3>2. limit # 0 => Len(acc.out) # limit
      BY <1>8 DEF Full
    <3> QED
      BY <1>1, <3>1, <3>2
  <2>4. Passes(incidents, scope, unselected, n) /\ ~Full(acc.out, limit)
    BY <1>8 DEF Passes
  <2>5. \E b : Draw(b, Append(acc.out, r), n)
    BY <1>2, <1>5, <2>1, <2>4, DrawnMore
  <2> QED
    BY <2>1, <2>2, <2>3, <2>5
<1>9. stop => new.out = acc.out
  BY <1>3 DEF Added
<1>10. skip => new.out = acc.out
  BY <1>3 DEF Added
<1> QED
  BY <1>7, <1>8, <1>9, <1>10

LEMMA ViolationsAreComplete ==
    ASSUME NEW S, NEW incidents \in Seq(Incidents(S)), NEW limit \in Nat, NEW snips \in Nat,
           NEW scope, NEW unselected
    PROVE  ViolationComplete(incidents, limit, snips, scope, unselected)
<1> DEFINE N == Len(incidents)
           F == {incidents[i].file : i \in 1..N}
           f == ViolationSteps(incidents, limit, snips, scope, unselected)
           Ok(n) == Sound(S, F, f[n], n, incidents, limit, snips, scope, unselected)
           Q == {n \in 0..N : Ok(n)}
<1>1. N \in Nat /\ F \in SUBSET S /\ \A n \in 1..N : incidents[n] \in Incidents(S) /\ incidents[n].file \in F
  <2>1. N \in Nat /\ \A n \in 1..N : incidents[n] \in Incidents(S)
    OBVIOUS
  <2>2. \A n \in 1..N : incidents[n].file \in S
    BY <2>1 DEF Incidents
  <2> QED
    BY <2>1, <2>2
<1>2. /\ f[0] = [out |-> <<>>, count |-> [u \in F |-> 0]]
      /\ \A n \in 1..N : f[n] = AddIncident(f[n - 1], incidents[n], limit, snips, scope, unselected)
  <2> HIDE DEF f, F
  <2> QED
    BY ViolationLoop DEF f, F
<1> HIDE DEF f, F, N
<1>3. Ok(0)
  <2>1. f[0].out = <<>> /\ f[0].count = [u \in F |-> 0]
    BY <1>2
  <2>2. f[0] \in Found(S, F) /\ Len(f[0].out) = 0
    BY <1>2, <2>1 DEF Found
  <2>3. Distinct(f[0].out) /\ (limit # 0 => Len(f[0].out) =< limit)
    BY <2>2 DEF Distinct
  <2>4. \E at : Drawn(at, f[0].out, 0, limit, incidents, scope, unselected)
    <3> DEFINE at == [k \in 1..0 |-> 0]
    <3>1. at \in [1..0 -> 1..0]
      OBVIOUS
    <3>2. Drawn(at, f[0].out, 0, limit, incidents, scope, unselected)
      <4> HIDE DEF at
      <4> QED
        BY <2>2, <3>1 DEF Drawn
    <3> QED
      BY <3>2
  <2>5. Counted(f[0], F, snips)
    <3>1. \A u : ShownIn(f[0].out, u) = {}
      BY <2>2 DEF ShownIn
    <3>2. Cardinality({}) = 0
      BY FS_EmptySet
    <3>3. ASSUME NEW u \in F
          PROVE  Cardinality(ShownIn(f[0].out, u)) = 0 /\ f[0].count[u] = 0
      BY <2>1, <3>1, <3>2
    <3> QED
      BY <3>3 DEF Counted
  <2> QED
    BY <2>2, <2>3, <2>4, <2>5 DEF Sound
<1>4. ASSUME NEW n \in 1..N, Ok(n - 1)
      PROVE  Ok(n)
  BY <1>1, <1>2, <1>4, SoundKept
<1> HIDE DEF Ok
<1>5. 0 \in Q /\ \A n \in 1..N : n - 1 \in Q => n \in Q
  BY <1>1, <1>3, <1>4
<1> HIDE DEF Q
<1>6. N \in Q
  <2>1. \A n \in 0..N : n \in Q
    BY <1>1, <1>5, Upto
  <2> QED
    BY <1>1, <2>1
<1> DEFINE out == f[N].out
<1>7. /\ f[N] \in Found(S, F) /\ Distinct(out) /\ (limit # 0 => Len(out) =< limit)
      /\ \E at : Drawn(at, out, N, limit, incidents, scope, unselected)
      /\ Counted(f[N], F, snips)
  BY <1>6 DEF Q, Ok, Sound
<1>8. createViolation(incidents, limit, snips, scope, unselected) = out
  BY DEF createViolation, f, N
<1>9. out \in Seq(Incidents(S)) /\ f[N].count \in [F -> Nat]
  BY <1>7 DEF Found
<1>10. PICK at : Drawn(at, out, N, limit, incidents, scope, unselected)
  BY <1>7
<1>11. snips # 0 => \A u \in {out[k].file : k \in 1..Len(out)} : Cardinality(ShownIn(out, u)) =< snips
  <2> SUFFICES ASSUME snips # 0, NEW k \in 1..Len(out)
               PROVE  Cardinality(ShownIn(out, out[k].file)) =< snips
    OBVIOUS
  <2>1. at[k] \in 1..N /\ Same(incidents[at[k]], out[k])
    BY <1>10 DEF Drawn
  <2>2. out[k].file \in F
    BY <1>1, <2>1 DEF Same
  <2>3. out[k] \in Incidents(S)
    BY <1>9
  <2>4. Cardinality(ShownIn(out, out[k].file)) \in Nat /\ f[N].count[out[k].file] \in Nat
    BY <1>9, <2>2, <2>3, ShownMore
  <2>5. Cardinality(ShownIn(out, out[k].file)) =< f[N].count[out[k].file] /\ f[N].count[out[k].file] =< snips
    BY <1>7, <2>2 DEF Counted
  <2> QED
    BY <2>4, <2>5
<1> HIDE DEF out
<1>12. \A i \in 1..N : Passes(incidents, scope, unselected, i)
          <=> ~FilterResponse(scope, incidents[i].file) /\ incidents[i] \notin unselected
  BY DEF Passes
<1>13. /\ at \in [1..Len(out) -> 1..N]
       /\ \A k \in 1..Len(out) : /\ ~FilterResponse(scope, incidents[at[k]].file)
                                 /\ incidents[at[k]] \notin unselected
                                 /\ Same(incidents[at[k]], out[k])
       /\ \A i, k \in 1..Len(out) : i < k => at[i] < at[k]
       /\ \A i \in 1..N : ~FilterResponse(scope, incidents[i].file) /\ incidents[i] \notin unselected =>
             \/ \E k \in 1..Len(out) : Same(incidents[i], out[k])
             \/ (limit # 0 /\ Len(out) = limit) /\ \A k \in 1..Len(out) : at[k] < i
  BY <1>10 DEF Drawn, Passes, Full
<1>14. snips # 0 => \A u \in {out[k].file : k \in 1..Len(out)} :
          Cardinality({k \in 1..Len(out) : out[k].file = u /\ out[k].place}) =< snips
  BY <1>11 DEF ShownIn
<1>15. /\ \A i, k \in 1..Len(out) : i # k => ~Same(out[i], out[k])
       /\ limit # 0 => Len(out) =< limit
  BY <1>7 DEF Distinct, out
<1> DEFINE Kept(i) == ~FilterResponse(scope, incidents[i].file) /\ incidents[i] \notin unselected
           Places == \E b \in [1..Len(out) -> 1..N] :
              /\ \A k \in 1..Len(out) : Kept(b[k]) /\ Same(incidents[b[k]], out[k])
              /\ \A i, k \in 1..Len(out) : i < k => b[i] < b[k]
              /\ \A i \in 1..N : Kept(i) =>
                    \/ \E k \in 1..Len(out) : Same(incidents[i], out[k])
                    \/ (limit # 0 /\ Len(out) = limit) /\ \A k \in 1..Len(out) : b[k] < i
<1>16. Places
  BY <1>13
<1> HIDE DEF Places
<1>17. ViolationComplete(incidents, limit, snips, scope, unselected) <=>
          /\ \A i, k \in 1..Len(out) : i # k => ~Same(out[i], out[k])
          /\ limit # 0 => Len(out) =< limit
          /\ Places
          /\ snips # 0 => \A u \in {out[k].file : k \in 1..Len(out)} :
                Cardinality({k \in 1..Len(out) : out[k].file = u /\ out[k].place}) =< snips
  BY <1>8 DEF ViolationComplete, Places, N
<1> QED
  BY <1>14, <1>15, <1>16, <1>17

-----------------------------------------------------------------------------
(* Labels                                                                  *)

LEMMA ValueParts ==
    ASSUME NEW S, NEW m \in LabelValues(S)
    PROVE  m.ver \in Nat /\ m.sym \in {"", "+", "-"}
<1>1. CASE m \in [name : S, ver : Nat \ {0}, sym : {"", "+", "-"}]
  BY <1>1
<1>2. CASE m \in [name : S, ver : {0}, sym : {""}]
  <2>1. m.ver = 0 /\ m.sym = ""
    BY <1>2
  <2>2. 0 \in Nat
    OBVIOUS
  <2> QED
    BY <2>1, <2>2, Zenon
<1> QED
  BY <1>1, <1>2 DEF LabelValues

LEMMA WiderMatches ==
    ASSUME NEW S, NEW m \in LabelValues(S), NEW w \in LabelValues(S), NEW c \in LabelValues(S)
    PROVE  WiderMatchesMore(m, w, c)
<1>1. m.ver \in Nat /\ w.ver \in Nat /\ c.ver \in Nat
  BY ValueParts
<1>2. w.sym \in {"", "+", "-"} /\ m.sym \in {"", "+", "-"}
  BY ValueParts
<1> SUFFICES ASSUME Wider(w, m), labelValueMatches(m, c)
             PROVE  labelValueMatches(w, c)
  BY DEF WiderMatchesMore
<1>3. m.name = w.name /\ m.ver # 0 /\ w.ver # 0 /\ m.name = c.name /\ (c.ver = 0 \/ InRange(m, c))
  BY DEF Wider, labelValueMatches
<1>4. SUFFICES ASSUME c.ver # 0
               PROVE  InRange(w, c)
  BY <1>3 DEF labelValueMatches
<1>5. CASE w.sym = "+"
  <2>1. m.sym # "-" /\ m.ver >= w.ver
    BY <1>5 DEF Wider
  <2>2. m.sym \in {"", "+"} /\ InRange(m, c)
    BY <1>2, <1>3, <1>4, <2>1
  <2>3. c.ver = m.ver \/ c.ver >= m.ver
    <3>1. CASE m.sym = "+"
      BY <2>2, <3>1 DEF InRange
    <3>2. CASE m.sym = ""
      BY <2>2, <3>2 DEF InRange
    <3> QED
      BY <2>2, <3>1, <3>2
  <2>4. c.ver >= w.ver
    BY <1>1, <2>1, <2>3
  <2> QED
    BY <1>5, <2>4 DEF InRange
<1>6. CASE w.sym = "-"
  <2>1. m.sym # "+" /\ m.ver =< w.ver
    BY <1>6 DEF Wider
  <2>2. m.sym \in {"", "-"} /\ InRange(m, c)
    BY <1>2, <1>3, <1>4, <2>1
  <2>3. c.ver = m.ver \/ c.ver =< m.ver
    <3>1. CASE m.sym = "-"
      BY <2>2, <3>1 DEF InRange
    <3>2. CASE m.sym = ""
      BY <2>2, <3>2 DEF InRange
    <3> QED
      BY <2>2, <3>1, <3>2
  <2>4. c.ver =< w.ver
    BY <1>1, <2>1, <2>3
  <2> QED
    BY <1>6, <2>4 DEF InRange
<1>7. CASE w.sym = ""
  <2>1. m = w
    BY <1>7 DEF Wider
  <2> QED
    BY <1>3, <1>4, <2>1
<1> QED
  BY <1>2, <1>5, <1>6, <1>7

\* What a part of an expression is worth, when is[i] is the worth of part i.
PartIs(is, expr, labels, i) ==
    CASE expr[i].op = "label" -> LabelHolds(expr[i], labels)
      [] expr[i].op = "not" -> ~is[expr[i].l]
      [] expr[i].op = "and" -> is[expr[i].l] /\ is[expr[i].r]
      [] expr[i].op = "or" -> is[expr[i].l] \/ is[expr[i].r]

PartsAre(is, n, expr, labels) == \A i \in 1..n : is[i] = PartIs(is, expr, labels, i)

LEMMA PartKinds ==
    ASSUME NEW S, NEW expr \in Expressions(S)
    PROVE  /\ Len(expr) \in Nat \ {0}
           /\ \A i \in 1..Len(expr) :
                 /\ expr[i].op \in {"label", "not", "and", "or"}
                 /\ expr[i].op # "label" => expr[i].l \in 1..i - 1 /\ expr[i].r \in 1..i - 1
<1> DEFINE P == [op : {"label", "not", "and", "or"}, key : S, val : LabelValues(S), l : Nat, r : Nat]
<1>1. /\ expr \in Seq(P) /\ expr # <<>>
      /\ \A i \in 1..Len(expr) : expr[i].op # "label" => expr[i].l \in 1..i - 1 /\ expr[i].r \in 1..i - 1
  BY DEF Expressions
<1>2. \A p \in P : p.op \in {"label", "not", "and", "or"}
  OBVIOUS
<1> HIDE DEF P
<1>3. Len(expr) \in Nat /\ Len(expr) # 0
  BY <1>1
<1>4. \A i \in 1..Len(expr) : expr[i] \in P
  BY <1>1
<1> QED
  BY <1>1, <1>2, <1>3, <1>4

LEMMA PartWorth ==
    ASSUME NEW is, NEW expr, NEW labels, NEW i,
           expr[i].op \in {"label", "not", "and", "or"}
    PROVE  /\ PartIs(is, expr, labels, i) \in BOOLEAN
           /\ expr[i].op = "label" => (PartIs(is, expr, labels, i) <=> LabelHolds(expr[i], labels))
           /\ expr[i].op = "not" => (PartIs(is, expr, labels, i) <=> ~is[expr[i].l])
           /\ expr[i].op = "and" => (PartIs(is, expr, labels, i) <=> is[expr[i].l] /\ is[expr[i].r])
           /\ expr[i].op = "or" => (PartIs(is, expr, labels, i) <=> is[expr[i].l] \/ is[expr[i].r])
<1>1. CASE expr[i].op = "label"
  <2>1. PartIs(is, expr, labels, i) = LabelHolds(expr[i], labels)
    BY <1>1 DEF PartIs
  <2> QED
    BY <1>1, <2>1 DEF LabelHolds
<1>2. CASE expr[i].op = "not"
  <2>1. PartIs(is, expr, labels, i) = (~is[expr[i].l])
    BY <1>2 DEF PartIs
  <2> QED
    BY <1>2, <2>1
<1>3. CASE expr[i].op = "and"
  <2>1. PartIs(is, expr, labels, i) = (is[expr[i].l] /\ is[expr[i].r])
    BY <1>3 DEF PartIs
  <2> QED
    BY <1>3, <2>1
<1>4. CASE expr[i].op = "or"
  <2>1. PartIs(is, expr, labels, i) = (is[expr[i].l] \/ is[expr[i].r])
    BY <1>4 DEF PartIs
  <2> QED
    BY <1>4, <2>1
<1> QED
  BY <1>1, <1>2, <1>3, <1>4

LEMMA PartsExist ==
    ASSUME NEW S, NEW expr \in Expressions(S), NEW labels
    PROVE  \E is \in [1..Len(expr) -> BOOLEAN] : PartsAre(is, Len(expr), expr, labels)
<1> DEFINE N == Len(expr)
           Good(k) == \E is \in [1..N -> BOOLEAN] : PartsAre(is, k, expr, labels)
           Q == {k \in 0..N : Good(k)}
<1>1. /\ N \in Nat
      /\ \A i \in 1..N : /\ expr[i].op \in {"label", "not", "and", "or"}
                         /\ expr[i].op # "label" => expr[i].l \in 1..i - 1 /\ expr[i].r \in 1..i - 1
  BY PartKinds
<1> HIDE DEF N
<1>2. Good(0)
  <2> DEFINE is == [n \in 1..N |-> TRUE]
  <2>1. is \in [1..N -> BOOLEAN]
    OBVIOUS
  <2>2. PartsAre(is, 0, expr, labels)
    BY DEF PartsAre
  <2> QED
    BY <2>1, <2>2
<1>3. ASSUME NEW k \in 1..N, Good(k - 1)
      PROVE  Good(k)
  <2>1. PICK is \in [1..N -> BOOLEAN] : PartsAre(is, k - 1, expr, labels)
    BY <1>3
  <2> DEFINE worth == PartIs(is, expr, labels, k)
             next == [n \in 1..N |-> IF n = k THEN worth ELSE is[n]]
  <2>2. worth \in BOOLEAN
    BY <1>1, PartWorth
  <2> HIDE DEF worth
  <2>3. next \in [1..N -> BOOLEAN]
    BY <2>2
  <2>4. next[k] = worth /\ \A n \in 1..k - 1 : n \in 1..N /\ next[n] = is[n]
    BY <1>1
  <2> HIDE DEF next
  <2>5. ASSUME NEW n \in 1..k
        PROVE  next[n] = PartIs(next, expr, labels, n)
    <3>1. n \in 1..N
      BY <1>1
    <3>2. expr[n].op # "label" => next[expr[n].l] = is[expr[n].l] /\ next[expr[n].r] = is[expr[n].r]
      <4> SUFFICES ASSUME expr[n].op # "label"
                   PROVE  next[expr[n].l] = is[expr[n].l] /\ next[expr[n].r] = is[expr[n].r]
        OBVIOUS
      <4>1. expr[n].l \in 1..n - 1 /\ expr[n].r \in 1..n - 1
        BY <1>1, <3>1
      <4>2. expr[n].l \in 1..k - 1 /\ expr[n].r \in 1..k - 1
        BY <4>1
      <4> QED
        BY <2>4, <4>2
    <3>3. PartIs(next, expr, labels, n) = PartIs(is, expr, labels, n)
      <4>1. expr[n].op \in {"label", "not", "and", "or"}
        BY <1>1, <3>1
      <4>2. CASE expr[n].op = "label"
        BY <4>2 DEF PartIs
      <4>3. CASE expr[n].op = "not"
        <5>1. next[expr[n].l] = is[expr[n].l]
          BY <3>2, <4>3
        <5> QED
          BY <4>3, <5>1 DEF PartIs
      <4>4. CASE expr[n].op = "and"
        <5>1. next[expr[n].l] = is[expr[n].l] /\ next[expr[n].r] = is[expr[n].r]
          BY <3>2, <4>4
        <5> QED
          BY <4>4, <5>1 DEF PartIs
      <4>5. CASE expr[n].op = "or"
        <5>1. next[expr[n].l] = is[expr[n].l] /\ next[expr[n].r] = is[expr[n].r]
          BY <3>2, <4>5
        <5> QED
          BY <4>5, <5>1 DEF PartIs
      <4> QED
        BY <4>1, <4>2, <4>3, <4>4, <4>5
    <3>4. next[n] = PartIs(is, expr, labels, n)
      <4>1. CASE n = k
        BY <2>4, <4>1 DEF worth
      <4>2. CASE n # k
        <5>1. n \in 1..k - 1
          BY <4>2
        <5>2. next[n] = is[n]
          BY <2>4, <5>1
        <5>3. is[n] = PartIs(is, expr, labels, n)
          BY <2>1, <5>1 DEF PartsAre
        <5> QED
          BY <5>2, <5>3
      <4> QED
        BY <4>1, <4>2
    <3> QED
      BY <3>3, <3>4
  <2>6. PartsAre(next, k, expr, labels)
    BY <2>5 DEF PartsAre
  <2> QED
    BY <2>3, <2>6
<1> HIDE DEF Good
<1>4. 0 \in Q /\ \A n \in 1..N : n - 1 \in Q => n \in Q
  BY <1>1, <1>2, <1>3
<1> HIDE DEF Q
<1>5. \A n \in 0..N : n \in Q
  BY <1>1, <1>4, Upto
<1>6. Good(N)
  BY <1>1, <1>5 DEF Q
<1> QED
  BY <1>6 DEF Good, N

LEMMA PartsHoldAre ==
    ASSUME NEW S, NEW expr \in Expressions(S), NEW labels
    PROVE  PartsAre(PartsHold(expr, labels), Len(expr), expr, labels)
<1> DEFINE N == Len(expr)
           g == PartsHold(expr, labels)
<1>1. PICK is \in [1..N -> BOOLEAN] : PartsAre(is, N, expr, labels)
  BY PartsExist
<1>2. is = [i \in 1..N |-> PartIs(is, expr, labels, i)]
  BY <1>1 DEF PartsAre
<1>3. \E f : f = [i \in 1..N |-> PartIs(f, expr, labels, i)]
  BY <1>2
<1>4. g = [i \in 1..N |-> PartIs(g, expr, labels, i)]
  BY <1>3 DEF PartsHold, PartIs
<1> HIDE DEF g
<1>5. \A i \in 1..N : g[i] = PartIs(g, expr, labels, i)
  BY <1>4
<1> QED
  BY <1>5 DEF PartsAre, g

\* The labels b have all the values that the labels a have.
Fewer(a, b) == \A k : ValuesOf(a, k) \subseteq ValuesOf(b, k)

LEMMA LabelHoldsMore ==
    ASSUME NEW a, NEW b, Fewer(a, b), NEW e, LabelHolds(e, a)
    PROVE  LabelHolds(e, b)
<1>1. ValuesOf(a, e.key) \subseteq ValuesOf(b, e.key)
  BY DEF Fewer
<1> QED
  BY <1>1 DEF LabelHolds, matchesAny

\* An expression without a negation that holds of some labels holds of more.
LEMMA HoldsMore ==
    ASSUME NEW S, NEW expr \in Expressions(S), NEW a, NEW b, Fewer(a, b),
           Fewer(b, a) \/ \A i \in 1..Len(expr) : expr[i].op # "not",
           Holds(expr, a)
    PROVE  Holds(expr, b)
<1> DEFINE N == Len(expr)
           f == PartsHold(expr, a)
           g == PartsHold(expr, b)
           Up(i) == (f[i] => g[i]) /\ (Fewer(b, a) => (g[i] => f[i]))
           Q == {n \in 0..N : \A i \in 1..n : Up(i)}
<1>1. /\ N \in Nat \ {0}
      /\ \A i \in 1..N : /\ expr[i].op \in {"label", "not", "and", "or"}
                         /\ expr[i].op # "label" => expr[i].l \in 1..i - 1 /\ expr[i].r \in 1..i - 1
  BY PartKinds
<1>2. /\ \A i \in 1..N : f[i] = PartIs(f, expr, a, i)
      /\ \A i \in 1..N : g[i] = PartIs(g, expr, b, i)
  <2>1. PartsAre(f, N, expr, a) /\ PartsAre(g, N, expr, b)
    BY PartsHoldAre
  <2> QED
    BY <2>1 DEF PartsAre
<1> HIDE DEF N, f, g
<1>3. \A e : (LabelHolds(e, a) => LabelHolds(e, b)) /\ (Fewer(b, a) => (LabelHolds(e, b) => LabelHolds(e, a)))
  BY LabelHoldsMore
<1>4. ASSUME NEW n \in 1..N, \A i \in 1..n - 1 : Up(i)
      PROVE  Up(n)
  <2>1. /\ f[n] = PartIs(f, expr, a, n) /\ g[n] = PartIs(g, expr, b, n)
        /\ expr[n].op \in {"label", "not", "and", "or"}
    BY <1>1, <1>2
  <2>2. expr[n].op # "label" => Up(expr[n].l) /\ Up(expr[n].r)
    BY <1>1, <1>4
  <2>3. CASE expr[n].op = "label"
    <3>1. (PartIs(f, expr, a, n) <=> LabelHolds(expr[n], a)) /\ (PartIs(g, expr, b, n) <=> LabelHolds(expr[n], b))
      BY <2>1, <2>3, PartWorth
    <3> QED
      BY <1>3, <2>1, <3>1
  <2>4. CASE expr[n].op = "not"
    <3>1. (PartIs(f, expr, a, n) <=> ~f[expr[n].l]) /\ (PartIs(g, expr, b, n) <=> ~g[expr[n].l])
      BY <2>1, <2>4, PartWorth
    <3>2. Fewer(b, a)
      BY <2>4 DEF N
    <3> QED
      BY <2>1, <2>2, <2>4, <3>1, <3>2
  <2>5. CASE expr[n].op = "and"
    <3>1. /\ PartIs(f, expr, a, n) <=> f[expr[n].l] /\ f[expr[n].r]
          /\ PartIs(g, expr, b, n) <=> g[expr[n].l] /\ g[expr[n].r]
      BY <2>1, <2>5, PartWorth
    <3> QED
      BY <2>1, <2>2, <2>5, <3>1
  <2>6. CASE expr[n].op = "or"
    <3>1. /\ PartIs(f, expr, a, n) <=> f[expr[n].l] \/ f[expr[n].r]
          /\ PartIs(g, expr, b, n) <=> g[expr[n].l] \/ g[expr[n].r]
      BY <2>1, <2>6, PartWorth
    <3> QED
      BY <2>1, <2>2, <2>6, <3>1
  <2> QED
    BY <2>1, <2>3, <2>4, <2>5, <2>6
<1> HIDE DEF Up
<1>5. ASSUME NEW n \in 1..N, n - 1 \in Q
      PROVE  n \in Q
  <2>1. \A i \in 1..n - 1 : Up(i)
    BY <1>5
  <2>2. Up(n)
    BY <1>4, <2>1
  <2>3. \A i \in 1..n : i = n \/ i \in 1..n - 1
    OBVIOUS
  <2> QED
    BY <2>1, <2>2, <2>3
<1>6. 0 \in Q
  BY <1>1
<1> HIDE DEF Q
<1>7. \A n \in 0..N : n \in Q
  BY <1>1, <1>5, <1>6, Upto
<1>8. Up(N)
  <2>1. N \in 0..N /\ N \in 1..N
    BY <1>1
  <2>2. N \in Q
    BY <1>7, <2>1
  <2> QED
    BY <2>1, <2>2 DEF Q
<1> QED
  BY <1>8 DEF Up, Holds, f, g, N

LEMMA Joined ==
    ASSUME NEW S, NEW a \in Seq(AllLabels(S)), NEW b \in Seq(AllLabels(S))
    PROVE  /\ a \o b \in Seq(AllLabels(S)) /\ Len(a) \in Nat /\ Len(b) \in Nat
           /\ Len(a \o b) = Len(a) + Len(b)
           /\ \A i \in 1..Len(a) : (a \o b)[i] = a[i]
           /\ \A i \in 1..Len(b) : (a \o b)[Len(a) + i] = b[i]
  OBVIOUS

LEMMA JoinedAt ==
    ASSUME NEW S, NEW a \in Seq(AllLabels(S)), NEW b \in Seq(AllLabels(S)), NEW k
    PROVE  /\ At(a \o b, k) = At(a, k) \cup {Len(a) + i : i \in At(b, k)}
           /\ \A i \in At(a, k) : i \in Nat /\ i =< Len(a) /\ (a \o b)[i] = a[i]
           /\ \A i \in At(b, k) : i \in Nat \ {0} /\ (a \o b)[Len(a) + i] = b[i]
           /\ Len(a) \in Nat
<1> DEFINE c == a \o b
<1>1. /\ Len(a) \in Nat /\ Len(b) \in Nat /\ Len(c) = Len(a) + Len(b)
      /\ \A i \in 1..Len(a) : c[i] = a[i]
      /\ \A i \in 1..Len(b) : c[Len(a) + i] = b[i]
  BY Joined
<1> HIDE DEF c
<1>2. \A i \in At(a, k) : i \in 1..Len(a) /\ a[i].key = k
  BY DEF At
<1>3. \A i \in At(b, k) : i \in 1..Len(b) /\ b[i].key = k
  BY DEF At
<1>4. ASSUME NEW n \in At(c, k)
      PROVE  n \in At(a, k) \cup {Len(a) + i : i \in At(b, k)}
  <2>1. n \in 1..Len(c) /\ c[n].key = k
    BY DEF At
  <2>2. CASE n =< Len(a)
    <3>1. n \in 1..Len(a)
      BY <1>1, <2>1, <2>2
    <3> QED
      BY <1>1, <2>1, <3>1 DEF At
  <2>3. CASE ~(n =< Len(a))
    <3>1. n - Len(a) \in 1..Len(b) /\ n = Len(a) + (n - Len(a))
      BY <1>1, <2>1, <2>3
    <3>2. c[n] = b[n - Len(a)]
      BY <1>1, <3>1
    <3>3. n - Len(a) \in At(b, k)
      BY <2>1, <3>1, <3>2 DEF At
    <3> QED
      BY <3>1, <3>3
  <2> QED
    BY <2>2, <2>3
<1>5. ASSUME NEW n \in At(a, k)
      PROVE  n \in At(c, k)
  <2>1. n \in 1..Len(c) /\ c[n] = a[n]
    BY <1>1, <1>2
  <2> QED
    BY <1>2, <2>1 DEF At
<1>6. ASSUME NEW i \in At(b, k)
      PROVE  Len(a) + i \in At(c, k)
  <2>1. Len(a) + i \in 1..Len(c) /\ c[Len(a) + i] = b[i]
    BY <1>1, <1>3
  <2> QED
    BY <1>3, <2>1 DEF At
<1>7. At(c, k) = At(a, k) \cup {Len(a) + i : i \in At(b, k)}
  BY <1>4, <1>5, <1>6
<1>8. ASSUME NEW i \in At(a, k)
      PROVE  i \in Nat /\ i =< Len(a) /\ c[i] = a[i]
  BY <1>1, <1>2
<1>9. ASSUME NEW i \in At(b, k)
      PROVE  i \in Nat \ {0} /\ c[Len(a) + i] = b[i]
  BY <1>1, <1>3
<1> QED
  BY <1>1, <1>7, <1>8, <1>9 DEF c

LEMMA JoinedValues ==
    ASSUME NEW S, NEW a \in Seq(AllLabels(S)), NEW b \in Seq(AllLabels(S)), NEW k
    PROVE  ValuesOf(a \o b, k) = ValuesOf(a, k) \cup ValuesOf(b, k)
<1> DEFINE c == a \o b
<1>1. /\ At(c, k) = At(a, k) \cup {Len(a) + i : i \in At(b, k)}
      /\ \A i \in At(a, k) : c[i] = a[i]
      /\ \A i \in At(b, k) : c[Len(a) + i] = b[i]
  BY JoinedAt
<1> HIDE DEF c
<1>2. ASSUME NEW n \in At(c, k)
      PROVE  c[n].val \in ValuesOf(a, k) \cup ValuesOf(b, k)
  <2>1. CASE n \in At(a, k)
    BY <1>1, <2>1 DEF ValuesOf
  <2>2. CASE n \in {Len(a) + i : i \in At(b, k)}
    <3>1. PICK i \in At(b, k) : n = Len(a) + i
      BY <2>2
    <3> QED
      BY <1>1, <3>1 DEF ValuesOf
  <2> QED
    BY <1>1, <2>1, <2>2
<1>3. ASSUME NEW n \in At(a, k)
      PROVE  a[n].val \in ValuesOf(c, k)
  BY <1>1 DEF ValuesOf
<1>4. ASSUME NEW n \in At(b, k)
      PROVE  b[n].val \in ValuesOf(c, k)
  <2>1. Len(a) + n \in At(c, k) /\ c[Len(a) + n] = b[n]
    BY <1>1
  <2> QED
    BY <2>1 DEF ValuesOf
<1>5. ValuesOf(c, k) = ValuesOf(a, k) \cup ValuesOf(b, k)
  BY <1>2, <1>3, <1>4 DEF ValuesOf
<1> QED
  BY <1>5 DEF c

\* The first of the places is the one that Include takes.
LEMMA IncludeFirst ==
    ASSUME NEW labels, NEW i \in At(labels, IncludeKey), i \in Nat,
           \A k \in At(labels, IncludeKey) : k \in Nat /\ i =< k
    PROVE  Include(labels) = labels[i].val
<1> DEFINE at == At(labels, IncludeKey)
           c == CHOOSE n \in at : \A k \in at : n =< k
<1> HIDE DEF at
<1>1. i \in at /\ \A k \in at : k \in Nat /\ i =< k
  BY DEF at
<1>2. c \in at /\ \A k \in at : c =< k
  BY <1>1
<1> HIDE DEF c
<1>3. c = i
  BY <1>1, <1>2
<1>4. Include(labels) = labels[c].val
  BY <1>1 DEF Include, at, c
<1> QED
  BY <1>3, <1>4

LEMMA IncludeJoined ==
    ASSUME NEW S, NEW a \in Seq(AllLabels(S)), NEW b \in Seq(AllLabels(S))
    PROVE  Include(a \o b) = IF At(a, IncludeKey) # {} THEN Include(a) ELSE Include(b)
<1> DEFINE c == a \o b
           K == IncludeKey
<1>1. /\ At(c, K) = At(a, K) \cup {Len(a) + i : i \in At(b, K)}
      /\ \A i \in At(a, K) : i \in Nat /\ i =< Len(a) /\ c[i] = a[i]
      /\ \A i \in At(b, K) : i \in Nat \ {0} /\ c[Len(a) + i] = b[i]
      /\ Len(a) \in Nat
  BY JoinedAt
<1> HIDE DEF c, K
<1>2. \A k \in At(c, K) : k \in Nat
  BY <1>1
<1>3. CASE At(a, K) # {}
  <2>1. At(a, K) \subseteq Nat
    BY <1>1
  <2>2. PICK i \in At(a, K) : \A k \in At(a, K) : i =< k
    BY <1>3, <2>1, Least
  <2>3. i \in At(c, K) /\ i \in Nat /\ c[i] = a[i] /\ i =< Len(a)
    BY <1>1
  <2>4. \A k \in At(c, K) : i =< k
    <3> SUFFICES ASSUME NEW k \in At(c, K)
                 PROVE  i =< k
      OBVIOUS
    <3>1. CASE k \in At(a, K)
      BY <2>2, <3>1
    <3>2. CASE k \in {Len(a) + n : n \in At(b, K)}
      BY <1>1, <2>3, <3>2
    <3> QED
      BY <1>1, <3>1, <3>2
  <2>5. Include(c) = c[i].val
    BY <1>2, <2>3, <2>4, IncludeFirst DEF K
  <2>6. Include(a) = a[i].val
    BY <2>1, <2>2, IncludeFirst DEF K
  <2> QED
    BY <1>3, <2>3, <2>5, <2>6 DEF c, K
<1>4. CASE At(a, K) = {} /\ At(b, K) # {}
  <2>1. At(b, K) \subseteq Nat /\ At(c, K) = {Len(a) + i : i \in At(b, K)}
    BY <1>1, <1>4
  <2>2. PICK i \in At(b, K) : \A k \in At(b, K) : i =< k
    BY <1>4, <2>1, Least
  <2>3. Len(a) + i \in At(c, K) /\ Len(a) + i \in Nat /\ c[Len(a) + i] = b[i]
    BY <1>1, <2>1
  <2>4. \A k \in At(c, K) : Len(a) + i =< k
    <3> SUFFICES ASSUME NEW n \in At(b, K)
                 PROVE  Len(a) + i =< Len(a) + n
      BY <2>1
    <3>1. i \in Nat /\ n \in Nat /\ Len(a) \in Nat /\ i =< n
      BY <1>1, <2>1, <2>2
    <3> QED
      BY <3>1
  <2>5. Include(c) = c[Len(a) + i].val
    <3> DEFINE p == Len(a) + i
    <3> HIDE DEF p
    <3>1. p \in At(c, K) /\ p \in Nat /\ \A k \in At(c, K) : k \in Nat /\ p =< k
      BY <1>2, <2>3, <2>4 DEF p
    <3>2. Include(c) = c[p].val
      BY <3>1, IncludeFirst DEF K
    <3> QED
      BY <3>2 DEF p
  <2>6. Include(b) = b[i].val
    BY <2>1, <2>2, IncludeFirst DEF K
  <2> QED
    BY <1>4, <2>3, <2>5, <2>6 DEF c, K
<1>5. CASE At(a, K) = {} /\ At(b, K) = {}
  <2>1. At(c, K) = {}
    BY <1>1, <1>5
  <2>2. Include(c) = NoValue /\ Include(b) = NoValue
    BY <1>5, <2>1 DEF Include, K
  <2> QED
    BY <1>5, <2>2 DEF c, K
<1> QED
  BY <1>3, <1>4, <1>5

\* The labels a decide like the labels b, and are more.
Covers(a, b) == Include(a) = Include(b) /\ Fewer(b, a)

LEMMA MatchesCovered ==
    ASSUME NEW S, NEW expr \in Expressions(S), NEW a, NEW b, Covers(a, b),
           Fewer(a, b) \/ \A i \in 1..Len(expr) : expr[i].op # "not",
           Matches(expr, b)
    PROVE  Matches(expr, a)
<1>1. Holds(expr, b) => Holds(expr, a)
  BY HoldsMore DEF Covers
<1> QED
  BY <1>1 DEF Covers, Matches

LEMMA NoneAt ==
    ASSUME NEW a, NEW k
    PROVE  At(a, k) = {} <=> ValuesOf(a, k) = {}
  BY DEF ValuesOf

LEMMA JoinedFewer ==
    ASSUME NEW S, NEW a \in Seq(AllLabels(S)), NEW b \in Seq(AllLabels(S))
    PROVE  /\ Fewer(a, a \o b) /\ Fewer(b, a \o b)
           /\ \A c \in Seq(AllLabels(S)) : Fewer(c, a) => Fewer(c \o b, a \o b)
<1>1. \A k : ValuesOf(a \o b, k) = ValuesOf(a, k) \cup ValuesOf(b, k)
  BY JoinedValues
<1>2. ASSUME NEW c \in Seq(AllLabels(S)), Fewer(c, a)
      PROVE  Fewer(c \o b, a \o b)
  <2>1. \A k : ValuesOf(c \o b, k) = ValuesOf(c, k) \cup ValuesOf(b, k)
    BY JoinedValues
  <2>2. ASSUME NEW k
        PROVE  ValuesOf(c \o b, k) \subseteq ValuesOf(a \o b, k)
    <3>1. ValuesOf(c, k) \subseteq ValuesOf(a, k)
      BY <1>2 DEF Fewer
    <3>2. /\ ValuesOf(a \o b, k) = ValuesOf(a, k) \cup ValuesOf(b, k)
          /\ ValuesOf(c \o b, k) = ValuesOf(c, k) \cup ValuesOf(b, k)
      BY <1>1, <2>1
    <3> QED
      BY <3>1, <3>2, Zenon
  <2> QED
    BY <2>2 DEF Fewer
<1>3. ASSUME NEW k
      PROVE  /\ ValuesOf(a, k) \subseteq ValuesOf(a \o b, k)
             /\ ValuesOf(b, k) \subseteq ValuesOf(a \o b, k)
  <2>1. ValuesOf(a \o b, k) = ValuesOf(a, k) \cup ValuesOf(b, k)
    BY <1>1
  <2> QED
    BY <2>1, Zenon
<1> QED
  BY <1>2, <1>3 DEF Fewer

\* What MetaLabels adds at rule n.
MetaTurn(acc, n, rules, kept) == IF n \in kept THEN acc \o rules[n] ELSE acc

MetaLoop(f, rs, rules, kept) ==
    f[0] = rs /\ \A n \in 1..Len(rules) : f[n] = MetaTurn(f[n - 1], n, rules, kept)

LEMMA MetaLabelsLoop ==
    ASSUME NEW S, NEW rs \in Seq(AllLabels(S)), NEW rules \in Seq(Seq(AllLabels(S))), NEW kept
    PROVE  MetaLoop(MetaLabels(rs, rules, kept), rs, rules, kept)
<1> DEFINE N == Len(rules)
           C == Seq(AllLabels(S))
           step == [p \in C \X (1..N) |-> MetaTurn(p[1], p[2], rules, kept)]
           Turn(st, n) == IF n = 0 THEN rs ELSE MetaTurn(st[n - 1], n, rules, kept)
           f == MetaLabels(rs, rules, kept)
<1>1. N \in Nat /\ \A n \in 1..N : rules[n] \in C
  <2> HIDE DEF C
  <2>1. rules \in Seq(C)
    BY DEF C
  <2> QED
    BY <2>1
<1>2. ASSUME NEW acc \in C, NEW n \in 1..N
      PROVE  MetaTurn(acc, n, rules, kept) \in C
  <2>1. acc \o rules[n] \in C
    BY <1>1, Joined
  <2> QED
    BY <2>1 DEF MetaTurn
<1>3. step \in [C \X (1..N) -> C]
  <2> HIDE DEF C, N
  <2> QED
    BY <1>2
<1>4. PICK st \in [0..N -> C] : Iteration(st, N, rs, step)
  <2>1. rs \in C
    OBVIOUS
  <2> HIDE DEF C, N, step
  <2> QED
    BY <1>1, <1>3, <2>1, Iterates
<1> HIDE DEF C
<1>5. ASSUME NEW n \in 0..N
      PROVE  st[n] = Turn(st, n)
  <2> HIDE DEF N
  <2>1. n # 0 => n \in 1..N /\ <<st[n - 1], n>> \in C \X (1..N)
    BY <1>1, <1>4
  <2> QED
    BY <1>4, <2>1 DEF Iteration
<1>6. \E g : g = [n \in 0..N |-> Turn(g, n)]
  <2>1. st = [n \in 0..N |-> Turn(st, n)]
    <3> HIDE DEF Turn, N
    <3> QED
      BY <1>4, <1>5
  <2> QED
    BY <2>1
<1>7. f = [n \in 0..N |-> Turn(f, n)]
  BY <1>6 DEF MetaLabels, MetaTurn
<1> HIDE DEF f
<1>8. \A n \in 0..N : f[n] = Turn(f, n)
  <2> HIDE DEF Turn, N
  <2> QED
    BY <1>7
<1>9. 0 \in 0..N /\ \A n \in 1..N : n # 0 /\ n \in 0..N
  BY <1>1
<1> QED
  BY <1>8, <1>9 DEF MetaLoop, f

\* All the labels together cover those of one of the rules.
LEMMA MetaLabelsCover ==
    ASSUME NEW S, NEW rs \in Seq(AllLabels(S)), NEW rules \in Seq(Seq(AllLabels(S))),
           NEW kept \in SUBSET (1..Len(rules)), kept # {}
    PROVE  \E j \in kept : Covers(MetaLabels(rs, rules, kept)[Len(rules)], rs \o rules[j])
<1> DEFINE N == Len(rules)
           C == Seq(AllLabels(S))
           f == MetaLabels(rs, rules, kept)
           Ok(n) == /\ f[n] \in C
                    /\ \/ f[n] = rs /\ \A i \in kept : i > n
                       \/ \E j \in kept : Covers(f[n], rs \o rules[j])
           Q == {n \in 0..N : Ok(n)}
<1>1. N \in Nat /\ \A n \in 1..N : rules[n] \in C
  <2> HIDE DEF C
  <2>1. rules \in Seq(C)
    BY DEF C
  <2> QED
    BY <2>1
<1>2. f[0] = rs /\ \A n \in 1..N : f[n] = MetaTurn(f[n - 1], n, rules, kept)
  <2>1. MetaLoop(f, rs, rules, kept)
    BY MetaLabelsLoop
  <2> HIDE DEF f
  <2> QED
    BY <2>1 DEF MetaLoop
<1>0. kept \subseteq 1..N
  OBVIOUS
<1> HIDE DEF f, N
<1>3. Ok(0)
  <2>1. \A i \in kept : i > 0
    BY <1>0, <1>1
  <2> QED
    BY <1>2, <2>1
<1>4. ASSUME NEW n \in 1..N, Ok(n - 1)
      PROVE  Ok(n)
  <2> DEFINE a == f[n - 1]
             r == rules[n]
  <2>1. a \in C /\ r \in C /\ f[n] = MetaTurn(a, n, rules, kept) /\ rs \in C
    BY <1>1, <1>2, <1>4
  <2>2. CASE n \notin kept
    <3>1. f[n] = a
      BY <2>1, <2>2 DEF MetaTurn
    <3>2. (\A i \in kept : i > n - 1) => \A i \in kept : i > n
      BY <1>0, <2>2
    <3> QED
      BY <1>4, <2>1, <3>1, <3>2
  <2>3. CASE n \in kept
    <3>1. f[n] = a \o r
      BY <2>1, <2>3 DEF MetaTurn
    <3>2. a \o r \in C
      BY <2>1, Joined
    <3>3. Include(a \o r) = IF At(a, IncludeKey) # {} THEN Include(a) ELSE Include(r)
      BY <2>1, IncludeJoined
    <3>4. Include(rs \o r) = IF At(rs, IncludeKey) # {} THEN Include(rs) ELSE Include(r)
      BY <2>1, IncludeJoined
    <3>5. Fewer(rs, a) => Fewer(rs \o r, a \o r)
      BY <2>1, JoinedFewer
    <3>6. Fewer(a, a \o r)
      BY <2>1, JoinedFewer
    <3> HIDE DEF a, r, C
    <3>7. CASE a = rs
      <4>1. Covers(f[n], rs \o r)
        BY <3>1, <3>7 DEF Covers, Fewer
      <4> QED
        BY <2>3, <3>1, <3>2, <4>1 DEF r
    <3>8. CASE \E j \in kept : Covers(a, rs \o rules[j])
      <4>1. PICK j \in kept : Covers(a, rs \o rules[j])
        BY <3>8
      <4>2. rules[j] \in C
        BY <1>0, <1>1
      <4>3. Fewer(rs, rs \o rules[j])
        BY <4>2, JoinedFewer DEF C
      <4>4. Fewer(rs, a)
        BY <4>1, <4>3 DEF Covers, Fewer
      <4>5. CASE At(a, IncludeKey) # {}
        <5>1. Include(f[n]) = Include(a)
          BY <3>1, <3>3, <4>5
        <5>2. Fewer(rs \o rules[j], f[n])
          BY <3>1, <3>6, <4>1 DEF Covers, Fewer
        <5>3. Covers(f[n], rs \o rules[j])
          BY <4>1, <5>1, <5>2 DEF Covers
        <5> QED
          BY <3>1, <3>2, <5>3
      <4>6. CASE At(a, IncludeKey) = {}
        <5>1. At(rs, IncludeKey) = {}
          <6>1. ValuesOf(a, IncludeKey) = {}
            BY <4>6, NoneAt
          <6>2. ValuesOf(rs, IncludeKey) = {}
            BY <4>4, <6>1 DEF Fewer
          <6> QED
            BY <6>2, NoneAt
        <5>2. Include(f[n]) = Include(rs \o r)
          BY <3>1, <3>3, <3>4, <4>6, <5>1
        <5>3. Covers(f[n], rs \o r)
          BY <3>1, <3>5, <4>4, <5>2 DEF Covers
        <5> QED
          BY <2>3, <3>1, <3>2, <5>3 DEF r
      <4> QED
        BY <4>5, <4>6
    <3> QED
      BY <1>4, <3>7, <3>8 DEF a
  <2> QED
    BY <2>2, <2>3
<1> HIDE DEF Ok
<1>5. 0 \in Q /\ \A n \in 1..N : n - 1 \in Q => n \in Q
  BY <1>1, <1>3, <1>4
<1> HIDE DEF Q
<1>6. \A n \in 0..N : n \in Q
  BY <1>1, <1>5, Upto
<1>7. Ok(N)
  <2>1. N \in 0..N
    BY <1>1
  <2> QED
    BY <1>6, <2>1 DEF Q
<1>8. ~ \A i \in kept : i > N
  <2>1. PICK i \in kept : i \in 1..N
    BY <1>0
  <2>2. ~(i > N)
    BY <1>1, <2>1
  <2> QED
    BY <2>2
<1> QED
  BY <1>7, <1>8 DEF Ok, f, N

LEMMA SelectionsAgree ==
    ASSUME NEW S, NEW expr \in Expressions(S), NEW rs \in Seq(AllLabels(S)),
           NEW rules \in Seq(Seq(AllLabels(S)))
    PROVE  SelectionAgrees(expr, rs, rules)
<1> DEFINE positive == \A i \in 1..Len(expr) : expr[i].op # "not"
           consistent == \A i \in 1..Len(rules) :
              At(rs, IncludeKey) = {} \/ At(rules[i], IncludeKey) = {}
           loaded == Loaded(expr, rs, rules)
           kept == LoadRules(expr, rs, rules)
           all == MetaLabels(rs, rules, loaded)[Len(rules)]
<1>1. loaded \in SUBSET (1..Len(rules)) /\ \A i \in loaded : Matches(expr, rs \o rules[i])
  BY DEF Loaded
<1>2. \A i \in 1..Len(rules) : rules[i] \in Seq(AllLabels(S))
  <2> DEFINE C == Seq(AllLabels(S))
  <2> HIDE DEF C
  <2>1. rules \in Seq(C)
    BY DEF C
  <2>2. \A i \in 1..Len(rules) : rules[i] \in C
    BY <2>1
  <2> QED
    BY <2>2 DEF C
<1>3. kept = IF loaded # {} /\ Matches(expr, all) THEN loaded ELSE {}
  BY DEF LoadRules
<1> HIDE DEF loaded, kept, all
<1>4. ASSUME positive, loaded # {}
      PROVE  Matches(expr, all)
  <2>1. PICK j \in loaded : Covers(all, rs \o rules[j])
    BY <1>1, <1>4, MetaLabelsCover DEF all
  <2>2. Matches(expr, rs \o rules[j])
    BY <1>1
  <2> QED
    BY <1>4, <2>1, <2>2, MatchesCovered
<1>5. positive => kept = loaded
  BY <1>3, <1>4
<1>6. ASSUME consistent, NEW i \in kept
      PROVE  Matches(expr, rules[i] \o rs)
  <2>1. i \in loaded /\ i \in 1..Len(rules)
    BY <1>1, <1>3
  <2> DEFINE r == rules[i]
  <2>2. r \in Seq(AllLabels(S)) /\ Matches(expr, rs \o r)
    BY <1>1, <1>2, <2>1
  <2>3. At(rs, IncludeKey) = {} \/ At(r, IncludeKey) = {}
    BY <1>6, <2>1
  <2> HIDE DEF r
  <2>4. /\ Include(rs \o r) = IF At(rs, IncludeKey) # {} THEN Include(rs) ELSE Include(r)
        /\ Include(r \o rs) = IF At(r, IncludeKey) # {} THEN Include(r) ELSE Include(rs)
    BY <2>2, IncludeJoined
  <2>5. At(rs, IncludeKey) = {} /\ At(r, IncludeKey) = {} => Include(rs) = Include(r)
    BY DEF Include
  <2>6. Include(r \o rs) = Include(rs \o r)
    BY <2>3, <2>4, <2>5
  <2>7. Fewer(rs \o r, r \o rs) /\ Fewer(r \o rs, rs \o r)
    <3>1. \A k : ValuesOf(rs \o r, k) = ValuesOf(rs, k) \cup ValuesOf(r, k)
      BY <2>2, JoinedValues
    <3>2. \A k : ValuesOf(r \o rs, k) = ValuesOf(r, k) \cup ValuesOf(rs, k)
      BY <2>2, JoinedValues
    <3>3. ASSUME NEW k
          PROVE  ValuesOf(r \o rs, k) = ValuesOf(rs \o r, k)
      BY <3>1, <3>2
    <3> QED
      BY <3>3 DEF Fewer
  <2>8. Covers(r \o rs, rs \o r)
    BY <2>6, <2>7 DEF Covers
  <2>9. Matches(expr, r \o rs)
    BY <2>2, <2>7, <2>8, MatchesCovered
  <2> QED
    BY <2>9 DEF r
<1>7. consistent => filterRules(expr, rs, rules, kept) = kept
  BY <1>6 DEF filterRules
<1> QED
  BY <1>5, <1>7 DEF SelectionAgrees, loaded, kept
-----------------------------------------------------------------------------
(* Dependencies                                                            *)

Directed(d) == [d EXCEPT !.indirect = FALSE]
Indirect(d) == d.indirect

\* All that two dependencies have but whether they are direct.
SameDep(a, b) ==
    /\ a.name = b.name /\ a.ver = b.ver /\ a.res = b.res
    /\ a.base = b.base /\ a.prefix = b.prefix /\ a.kept = b.kept

LEMMA DirectedIs ==
    ASSUME NEW S, NEW d \in Deps(S)
    PROVE  Directed(d) \in Deps(S) /\ SameDep(Directed(d), d) /\ ~Indirect(Directed(d))
<1>1. Directed(d) \in Deps(S)
  BY DEF Directed, Deps
<1>2. SameDep(Directed(d), d)
  BY DEF Directed, Deps, SameDep
<1>3. ~Indirect(Directed(d))
  BY DEF Directed, Deps, Indirect
<1> QED
  BY <1>1, <1>2, <1>3

LEMMA SameDepIs ==
    ASSUME NEW S, NEW a \in Deps(S), NEW b \in Deps(S), SameDep(a, b)
    PROVE  a = [b EXCEPT !.indirect = a.indirect]
<1> DEFINE c == [b EXCEPT !.indirect = a.indirect]
<1>1. a.indirect \in BOOLEAN
  BY DEF Deps
<1>2. c \in Deps(S)
  BY <1>1 DEF Deps
<1>3. c.name = b.name /\ c.ver = b.ver /\ c.res = b.res /\ c.base = b.base /\ c.prefix = b.prefix
  BY DEF Deps
<1>4. c.kept = b.kept /\ c.indirect = a.indirect
  BY DEF Deps
<1> HIDE DEF c
<1>5. a = c
  <2> DEFINE Record(x) == [name |-> x.name, ver |-> x.ver, res |-> x.res, indirect |-> x.indirect,
                           base |-> x.base, prefix |-> x.prefix, kept |-> x.kept]
  <2>1. a = Record(a)
    BY DEF Deps
  <2>2. c = Record(c)
    BY <1>2 DEF Deps
  <2>3. Record(a) = Record(c)
    BY <1>3, <1>4 DEF SameDep
  <2> QED
    BY <2>1, <2>2, <2>3
<1> QED
  BY <1>5 DEF c

LEMMA SameCoord ==
    ASSUME NEW a, NEW b, SameDep(a, b)
    PROVE  Coord(a) = Coord(b)
  BY DEF SameDep, Coord

LEMMA SameDepTrans ==
    ASSUME NEW a, NEW b, NEW c, SameDep(a, b), SameDep(b, c)
    PROVE  SameDep(a, c)
  BY DEF SameDep

InList(acc, d) == \E i \in 1..Len(acc) : Coord(acc[i]) = Coord(d)

\* What a turn of deduplicateDependencies does, for each of those kept.
Merged(acc, d, new) ==
    /\ Len(new) = Len(acc)
    /\ \A i \in 1..Len(acc) : new[i] = IF Coord(acc[i]) = Coord(d) /\ ~Indirect(d)
                                       THEN Directed(acc[i]) ELSE acc[i]

DepAdded(acc, d, new) ==
    /\ ~InList(acc, d) => new = Append(acc, d)
    /\ InList(acc, d) => Merged(acc, d, new)

\* The loop, by what it does to the list: each turn adds to it or merges.
Outs(ds) == [n \in 0..Len(ds) |-> DedupSteps(ds)[n].out]

DedupLoop(f, ds, S) ==
    /\ f[0] = <<>>
    /\ \A n \in 1..Len(ds) : f[n] \in Seq(Deps(S)) /\ DepAdded(f[n - 1], ds[n], f[n])

LEMMA IdIs ==
    ASSUME NEW S, NEW d \in Deps(S)
    PROVE  Id(d) \in Seq(S)
<1>1. d.name \in Seq(S) /\ d.res \in Seq(S) /\ d.ver \in DepVersions(S)
  BY DEF Deps, Texts
<1>2. d.ver.text \in Seq(S)
  <2>1. CASE d.ver = NoVersion
    BY <2>1 DEF NoVersion
  <2>2. CASE d.ver # NoVersion
    BY <1>1, <2>2 DEF DepVersions, Texts
  <2> QED
    BY <2>1, <2>2
<1> QED
  BY <1>1, <1>2 DEF Id

LEMMA LastCut ==
    ASSUME NEW T, NEW s \in Seq(T), NEW t \in Seq(T), NEW x \in T, NEW y \in T,
           Append(s, x) = Append(t, y)
    PROVE  s = t
<1>1. /\ Len(s) \in Nat /\ Len(Append(s, x)) = Len(s) + 1
      /\ \A k \in 1..Len(s) + 1 : Append(s, x)[k] = IF k = Len(s) + 1 THEN x ELSE s[k]
  BY Appended
<1>2. /\ Len(t) \in Nat /\ Len(Append(t, y)) = Len(t) + 1
      /\ \A k \in 1..Len(t) + 1 : Append(t, y)[k] = IF k = Len(t) + 1 THEN y ELSE t[k]
  BY Appended
<1>3. Len(s) = Len(t)
  BY <1>1, <1>2
<1>4. ASSUME NEW k \in 1..Len(s)
      PROVE  s[k] = t[k]
  <2>1. k \in 1..Len(s) + 1 /\ k # Len(s) + 1
    BY <1>1
  <2> QED
    BY <1>1, <1>2, <1>3, <2>1
<1> QED
  BY <1>3, <1>4

\* When two of the keys of deduplicateDependencies are the same.
LEMMA KeysAre ==
    ASSUME NEW S, NEW a \in Deps(S), NEW b \in Deps(S)
    PROVE  /\ DirectKey(a) = DirectKey(b) <=> Id(a) = Id(b)
           /\ IndirectKey(a) = IndirectKey(b) <=> Id(a) = Id(b)
           /\ DirectKey(a) = IndirectKey(b) <=> Id(a) = Append(Id(b), "in")
<1> DEFINE T == S \cup {"in", "direct"}
           s == Id(a)
           t == Id(b)
<1>1. s \in Seq(T) /\ t \in Seq(T) /\ "in" \in T /\ "direct" \in T
  <2>1. s \in Seq(S) /\ t \in Seq(S)
    BY IdIs
  <2> HIDE DEF s, t
  <2> QED
    BY <2>1
<1> HIDE DEF T, s, t
<1>2. Append(s, "in") \in Seq(T) /\ Append(t, "in") \in Seq(T)
  BY <1>1, Appended
<1>3. Append(s, "direct") = Append(t, "direct") => s = t
  BY <1>1, LastCut
<1>4. Append(s, "direct") = Append(Append(t, "in"), "direct") => s = Append(t, "in")
  BY <1>1, <1>2, LastCut
<1>5. Append(Append(s, "in"), "direct") = Append(Append(t, "in"), "direct")
        => Append(s, "in") = Append(t, "in")
  BY <1>1, <1>2, LastCut
<1>6. Append(s, "in") = Append(t, "in") => s = t
  BY <1>1, LastCut
<1> QED
  BY <1>3, <1>4, <1>5, <1>6, Zenon DEF DirectKey, IndirectKey, s, t

KeyFor(d) == IF Indirect(d) THEN IndirectKey(d) ELSE DirectKey(d)
Known(acc, d) == DirectKey(d) \in DOMAIN acc.seen \/ IndirectKey(d) \in DOMAIN acc.seen
Made(acc, d) == DirectKey(d) \notin DOMAIN acc.seen /\ IndirectKey(d) \in DOMAIN acc.seen /\ ~Indirect(d)

\* The three things a turn of deduplicateDependencies can do.
LEMMA AddDepIs ==
    ASSUME NEW acc, NEW d
    PROVE  /\ ~Known(acc, d) =>
                 AddDep(acc, d) = [out |-> Append(acc.out, d),
                                   seen |-> Put(acc.seen, KeyFor(d), Len(acc.out) + 1)]
           /\ Made(acc, d) =>
                 LET at == acc.seen[IndirectKey(d)]
                 IN  AddDep(acc, d) = [out |-> [acc.out EXCEPT ![at] = Directed(acc.out[at])],
                                       seen |-> Put(acc.seen, DirectKey(d), at)]
           /\ Known(acc, d) /\ ~Made(acc, d) => AddDep(acc, d) = acc
<1>1. ~Known(acc, d) => AddDep(acc, d) = [out |-> Append(acc.out, d),
                                   seen |-> Put(acc.seen, KeyFor(d), Len(acc.out) + 1)]
  BY Zenon DEF Known, AddDep, KeyFor, Indirect
<1>2. Made(acc, d) =>
         LET at == acc.seen[IndirectKey(d)]
         IN  AddDep(acc, d) = [out |-> [acc.out EXCEPT ![at] = Directed(acc.out[at])],
                               seen |-> Put(acc.seen, DirectKey(d), at)]
  BY Zenon DEF Made, AddDep, Indirect, Directed
<1>3. Known(acc, d) /\ ~Made(acc, d) => AddDep(acc, d) = acc
  BY Zenon DEF Known, Made, AddDep, Indirect
<1> QED
  BY <1>1, <1>2, <1>3, Zenon

LEMMA DirectedAt ==
    ASSUME NEW S, NEW out \in Seq(Deps(S)), NEW at
    PROVE  LET new == [out EXCEPT ![at] = Directed(out[at])]
           IN  /\ new \in Seq(Deps(S)) /\ Len(new) = Len(out)
               /\ \A i \in 1..Len(out) : new[i] = IF i = at THEN Directed(out[i]) ELSE out[i]
<1> DEFINE L == Len(out)
           new == [out EXCEPT ![at] = Directed(out[at])]
<1>1. L \in Nat /\ DOMAIN out = 1..L /\ \A i \in 1..L : out[i] \in Deps(S)
  OBVIOUS
<1>2. \A i \in 1..L : Directed(out[i]) \in Deps(S)
  BY <1>1, DirectedIs
<1>3. new = [i \in 1..L |-> IF i = at THEN Directed(out[i]) ELSE out[i]]
  BY <1>1
<1> HIDE DEF new
<1>4. new \in [1..L -> Deps(S)] /\ \A i \in 1..L : new[i] = IF i = at THEN Directed(out[i]) ELSE out[i]
  BY <1>1, <1>2, <1>3
<1>5. new \in Seq(Deps(S)) /\ Len(new) = L
  BY <1>1, <1>4
<1> QED
  BY <1>4, <1>5 DEF new

\* The keys that a list can have, and what the loop goes through.
KeysOf(ds) == {DirectKey(ds[i]) : i \in 1..Len(ds)} \cup {IndirectKey(ds[i]) : i \in 1..Len(ds)}
Accs(ds, S) == [out : Seq(Deps(S)), seen : UNION {[D -> Nat] : D \in SUBSET KeysOf(ds)}]

LEMMA SeenMore ==
    ASSUME NEW K, NEW f \in UNION {[D -> Nat] : D \in SUBSET K}, NEW k \in K, NEW v \in Nat
    PROVE  Put(f, k, v) \in UNION {[D -> Nat] : D \in SUBSET K}
<1>1. PICK D \in SUBSET K : f \in [D -> Nat]
  OBVIOUS
<1>2. Put(f, k, v) \in [D \cup {k} -> Nat]
  BY <1>1 DEF Put
<1> QED
  BY <1>2

LEMMA AccsKept ==
    ASSUME NEW S, NEW ds \in Seq(Deps(S)), NEW acc \in Accs(ds, S), NEW n \in 1..Len(ds)
    PROVE  AddDep(acc, ds[n]) \in Accs(ds, S)
<1> DEFINE d == ds[n]
           K == KeysOf(ds)
           F == UNION {[D -> Nat] : D \in SUBSET K}
<1>1. d \in Deps(S) /\ acc.out \in Seq(Deps(S)) /\ acc.seen \in F
  BY DEF Accs
<1>2. DirectKey(d) \in K /\ IndirectKey(d) \in K /\ KeyFor(d) \in K
  BY DEF KeysOf, KeyFor
<1> HIDE DEF d, K
<1>3. CASE ~Known(acc, d)
  <2> DEFINE L == Len(acc.out) + 1
  <2>1. AddDep(acc, d) = [out |-> Append(acc.out, d), seen |-> Put(acc.seen, KeyFor(d), L)]
    BY <1>3, AddDepIs
  <2>2. L \in Nat /\ Append(acc.out, d) \in Seq(Deps(S))
    BY <1>1
  <2> HIDE DEF L
  <2>3. Put(acc.seen, KeyFor(d), L) \in F
    BY <1>1, <1>2, <2>2, SeenMore
  <2> HIDE DEF F
  <2> QED
    BY <2>1, <2>2, <2>3 DEF Accs, d, K, F
<1>4. CASE Made(acc, d)
  <2> DEFINE at == acc.seen[IndirectKey(d)]
             new == [acc.out EXCEPT ![at] = Directed(acc.out[at])]
  <2>1. AddDep(acc, d) = [out |-> new, seen |-> Put(acc.seen, DirectKey(d), at)]
    BY <1>4, AddDepIs
  <2>2. at \in Nat
    <3>1. PICK D \in SUBSET K : acc.seen \in [D -> Nat]
      BY <1>1
    <3> QED
      BY <1>4, <3>1 DEF Made
  <2>3. new \in Seq(Deps(S))
    BY <1>1, DirectedAt
  <2> HIDE DEF at, new
  <2>4. Put(acc.seen, DirectKey(d), at) \in F
    BY <1>1, <1>2, <2>2, SeenMore
  <2> HIDE DEF F
  <2> QED
    BY <2>1, <2>3, <2>4 DEF Accs, d, K, F
<1>5. CASE Known(acc, d) /\ ~Made(acc, d)
  BY <1>5, AddDepIs DEF d
<1> QED
  BY <1>3, <1>4, <1>5 DEF Known, Made

LEMMA DedupStepsAre ==
    ASSUME NEW S, NEW ds \in Seq(Deps(S)), NEW f, f = DedupSteps(ds)
    PROVE  /\ f[0] = NoneSeen
           /\ \A n \in 1..Len(ds) : f[n - 1] \in Accs(ds, S) /\ f[n] = AddDep(f[n - 1], ds[n])
           /\ \A n \in 0..Len(ds) : f[n] \in Accs(ds, S)
<1> DEFINE N == Len(ds)
           C == Accs(ds, S)
           step == [p \in C \X (1..N) |-> AddDep(p[1], ds[p[2]])]
           Turn(st, n) == IF n = 0 THEN NoneSeen ELSE AddDep(st[n - 1], ds[n])
<1>1. N \in Nat
  OBVIOUS
<1>2. \A acc \in C, n \in 1..N : AddDep(acc, ds[n]) \in C
  BY AccsKept
<1>3. step \in [C \X (1..N) -> C]
  <2> HIDE DEF C, N
  <2> QED
    BY <1>2
<1>4. PICK st \in [0..N -> C] : Iteration(st, N, NoneSeen, step)
  <2>1. NoneSeen \in C
    <3>1. <<>> \in [{} -> Nat] /\ {} \in SUBSET KeysOf(ds)
      OBVIOUS
    <3> DEFINE F == UNION {[D -> Nat] : D \in SUBSET KeysOf(ds)}
               A == Seq(Deps(S))
    <3>2. <<>> \in F /\ <<>> \in A
      <4>1. <<>> \in F
        BY <3>1
      <4>2. <<>> \in A
        OBVIOUS
      <4> QED
        BY <4>1, <4>2
    <3> HIDE DEF F, A
    <3>3. [out |-> <<>>, seen |-> <<>>] \in [out : A, seen : F]
      BY <3>2
    <3> QED
      BY <3>3 DEF NoneSeen, Accs, F, A
  <2> HIDE DEF C, N, step
  <2> QED
    BY <1>1, <1>3, <2>1, Iterates
<1> HIDE DEF C
<1>5. ASSUME NEW n \in 0..N
      PROVE  st[n] = Turn(st, n)
  <2> HIDE DEF N
  <2>1. n # 0 => n \in 1..N /\ <<st[n - 1], n>> \in C \X (1..N)
    BY <1>1, <1>4
  <2> QED
    BY <1>4, <2>1 DEF Iteration
<1>6. \E g : g = [n \in 0..N |-> Turn(g, n)]
  <2>1. st = [n \in 0..N |-> Turn(st, n)]
    <3> HIDE DEF Turn, N
    <3> QED
      BY <1>4, <1>5
  <2> QED
    BY <2>1
<1>7. f = [n \in 0..N |-> Turn(f, n)]
  BY <1>6 DEF DedupSteps
<1>8. \A n \in 0..N : f[n] = Turn(f, n)
  <2> HIDE DEF Turn, N
  <2> QED
    BY <1>7
<1>9. 0 \in 0..N /\ \A n \in 1..N : n # 0 /\ n \in 0..N /\ n - 1 \in 0..N
  BY <1>1
<1>10. \A n \in 0..N : f[n] \in C
  <2> DEFINE Q == {n \in 0..N : f[n] \in C}
  <2>1. 0 \in Q
    <3>1. st[0] \in C /\ st[0] = Turn(st, 0) /\ f[0] = Turn(f, 0)
      BY <1>4, <1>5, <1>8, <1>9
    <3> QED
      BY <1>9, <3>1
  <2>2. ASSUME NEW n \in 1..N, n - 1 \in Q
        PROVE  n \in Q
    <3>1. f[n] = AddDep(f[n - 1], ds[n]) /\ f[n - 1] \in C
      BY <1>8, <1>9, <2>2
    <3>2. AddDep(f[n - 1], ds[n]) \in C
      BY <1>2, <3>1
    <3> QED
      BY <1>9, <3>1, <3>2
  <2> HIDE DEF Q, N
  <2>3. \A n \in 0..N : n \in Q
    BY <1>1, <2>1, <2>2, Upto
  <2> QED
    BY <2>3 DEF Q
<1> QED
  BY <1>8, <1>9, <1>10 DEF C

\* Whatever the keys are: out[k] is ds[at[k]], at most made direct.
Placed(at, out, ds, n) ==
    /\ at \in [1..Len(out) -> 1..n]
    /\ \A i, k \in 1..Len(out) : i < k => at[i] < at[k]
    /\ \A k \in 1..Len(out) : SameDep(out[k], ds[at[k]]) /\ (Indirect(out[k]) => Indirect(ds[at[k]]))

\* What is kept has a key, so that no other with the same text is kept.
Filed(out, seen) ==
    /\ \A k \in 1..Len(out) : DirectKey(out[k]) \in DOMAIN seen \/ IndirectKey(out[k]) \in DOMAIN seen
    /\ \A i, k \in 1..Len(out) : Id(out[i]) = Id(out[k]) => i = k

LEMMA SameId ==
    ASSUME NEW a, NEW b, SameDep(a, b)
    PROVE  Id(a) = Id(b)
<1>1. a.name = b.name /\ a.ver = b.ver /\ a.res = b.res
  BY DEF SameDep
<1> QED
  BY <1>1, Zenon DEF Id

LEMMA PlacedWider ==
    ASSUME NEW ds, NEW n \in Nat \ {0}, NEW at, NEW out, Placed(at, out, ds, n - 1)
    PROVE  Placed(at, out, ds, n)
<1>1. at \in [1..Len(out) -> 1..n]
  <2>1. \A k \in 1..Len(out) : at[k] \in 1..n
    <3>1. \A k \in 1..Len(out) : at[k] \in 1..n - 1
      BY DEF Placed
    <3> QED
      BY <3>1
  <2> QED
    BY <2>1 DEF Placed
<1> QED
  BY <1>1 DEF Placed

LEMMA PlacedMade ==
    ASSUME NEW S, NEW ds, NEW n \in Nat \ {0}, NEW at, NEW out \in Seq(Deps(S)), NEW seen, NEW key, NEW j,
           Placed(at, out, ds, n - 1), Filed(out, seen),
           NEW new, new = [out EXCEPT ![j] = Directed(out[j])]
    PROVE  Placed(at, new, ds, n) /\ Filed(new, Put(seen, key, j))
<1> DEFINE L == Len(out)
           s == Put(seen, key, j)
<1>1. Len(new) = L /\ \A i \in 1..L : new[i] = IF i = j THEN Directed(out[i]) ELSE out[i]
  BY DirectedAt
<1>2. ASSUME NEW k \in 1..L
      PROVE  SameDep(new[k], out[k]) /\ (Indirect(new[k]) => Indirect(out[k]))
  <2>1. out[k] \in Deps(S)
    OBVIOUS
  <2>2. SameDep(Directed(out[k]), out[k]) /\ ~Indirect(Directed(out[k]))
    BY <2>1, DirectedIs
  <2>3. SameDep(out[k], out[k])
    BY DEF SameDep
  <2> QED
    BY <1>1, <2>2, <2>3
<1>3. Placed(at, out, ds, n)
  BY PlacedWider
<1>4. ASSUME NEW k \in 1..L
      PROVE  SameDep(new[k], ds[at[k]]) /\ (Indirect(new[k]) => Indirect(ds[at[k]]))
  <2>1. SameDep(out[k], ds[at[k]]) /\ (Indirect(out[k]) => Indirect(ds[at[k]]))
    BY <1>3 DEF Placed
  <2> QED
    BY <1>2, <2>1, SameDepTrans
<1>5. Placed(at, new, ds, n)
  BY <1>1, <1>3, <1>4 DEF Placed
<1>6. \A k \in 1..L : Id(new[k]) = Id(out[k])
  BY <1>2, SameId
<1>7. DOMAIN seen \subseteq DOMAIN s
  BY DEF Put
<1> HIDE DEF s
<1>8. Filed(new, s)
  BY <1>1, <1>6, <1>7, Zenon DEF Filed, DirectKey, IndirectKey
<1> QED
  BY <1>5, <1>8 DEF s

LEMMA PlacedMore ==
    ASSUME NEW S, NEW ds, NEW n \in Nat \ {0}, ds[n] \in Deps(S), NEW at, NEW out \in Seq(Deps(S)),
           Placed(at, out, ds, n - 1)
    PROVE  \E b : Placed(b, Append(out, ds[n]), ds, n)
<1> DEFINE L == Len(out)
           new == Append(out, ds[n])
           b == [k \in 1..L + 1 |-> IF k = L + 1 THEN n ELSE at[k]]
<1>1. /\ L \in Nat /\ Len(new) = L + 1
      /\ \A k \in 1..L + 1 : new[k] = IF k = L + 1 THEN ds[n] ELSE out[k]
  BY Appended
<1> HIDE DEF new, L
<1>2. ASSUME NEW k \in 1..L + 1
      PROVE  \/ k = L + 1 /\ b[k] = n /\ new[k] = ds[n]
             \/ k \in 1..L /\ b[k] = at[k] /\ new[k] = out[k] /\ b[k] \in 1..n - 1
  <2>1. CASE k = L + 1
    BY <1>1, <2>1
  <2>2. CASE k # L + 1
    <3>1. k \in 1..L
      BY <1>1, <2>2
    <3>2. at[k] \in 1..n - 1
      BY <3>1 DEF Placed, L
    <3> QED
      BY <1>1, <2>2, <3>1, <3>2
  <2> QED
    BY <2>1, <2>2
<1>3. b \in [1..L + 1 -> 1..n]
  <2>1. \A k \in 1..L + 1 : b[k] \in 1..n
    BY <1>2
  <2>2. b = [k \in 1..L + 1 |-> b[k]]
    OBVIOUS
  <2> HIDE DEF b
  <2> QED
    BY <2>1, <2>2
<1> HIDE DEF b
<1>4. ASSUME NEW k \in 1..L + 1
      PROVE  SameDep(new[k], ds[b[k]]) /\ (Indirect(new[k]) => Indirect(ds[b[k]]))
  <2>1. CASE k = L + 1 /\ b[k] = n /\ new[k] = ds[n]
    BY <2>1 DEF SameDep
  <2>2. CASE k \in 1..L /\ b[k] = at[k] /\ new[k] = out[k]
    BY <2>2 DEF Placed, L
  <2> QED
    BY <1>2, <2>1, <2>2
<1>5. ASSUME NEW i \in 1..L + 1, NEW k \in 1..L + 1, i < k
      PROVE  b[i] < b[k]
  <2>1. i \in 1..L /\ b[i] = at[i] /\ b[i] \in 1..n - 1
    BY <1>1, <1>2, <1>5
  <2>2. CASE k = L + 1 /\ b[k] = n
    BY <2>1, <2>2
  <2>3. CASE k \in 1..L /\ b[k] = at[k]
    BY <1>5, <2>1, <2>3 DEF Placed, L
  <2> QED
    BY <1>2, <2>2, <2>3
<1>6. Placed(b, new, ds, n)
  BY <1>1, <1>3, <1>4, <1>5 DEF Placed
<1> QED
  BY <1>6 DEF new

LEMMA FiledMore ==
    ASSUME NEW S, NEW acc, acc.out \in Seq(Deps(S)), NEW d \in Deps(S), Filed(acc.out, acc.seen), ~Known(acc, d)
    PROVE  Filed(Append(acc.out, d), Put(acc.seen, KeyFor(d), Len(acc.out) + 1))
<1> DEFINE out == acc.out
           seen == acc.seen
           L == Len(out)
           new == Append(out, d)
           s == Put(seen, KeyFor(d), L + 1)
<1>1. /\ L \in Nat /\ Len(new) = L + 1
      /\ \A k \in 1..L + 1 : new[k] = IF k = L + 1 THEN d ELSE out[k]
  <2>1. out \in Seq(Deps(S))
    OBVIOUS
  <2> HIDE DEF out
  <2> QED
    BY <2>1, Appended
<1>2. DOMAIN s = DOMAIN seen \cup {KeyFor(d)}
  BY DEF Put
<1> HIDE DEF new, L, s
<1>3. \A k \in 1..L + 1 : (k = L + 1 /\ new[k] = d) \/ (k \in 1..L /\ new[k] = out[k])
  BY <1>1
<1>4. KeyFor(d) = DirectKey(d) \/ KeyFor(d) = IndirectKey(d)
  BY DEF KeyFor
<1>5. \A k \in 1..L : DirectKey(out[k]) \in DOMAIN seen \/ IndirectKey(out[k]) \in DOMAIN seen
  BY DEF Filed, L
<1>6. \A k \in 1..L : Id(out[k]) # Id(d)
  <2> SUFFICES ASSUME NEW k \in 1..L, Id(out[k]) = Id(d)
               PROVE  FALSE
    OBVIOUS
  <2>1. DirectKey(out[k]) = DirectKey(d) /\ IndirectKey(out[k]) = IndirectKey(d)
    BY Zenon DEF DirectKey, IndirectKey
  <2> QED
    BY <1>5, <2>1 DEF Known
<1>7. \A i, k \in 1..L : Id(out[i]) = Id(out[k]) => i = k
  BY DEF Filed, L
<1>8. \A k \in 1..L + 1 : DirectKey(new[k]) \in DOMAIN s \/ IndirectKey(new[k]) \in DOMAIN s
  BY <1>2, <1>3, <1>4, <1>5, Zenon
<1>9. \A i, k \in 1..L + 1 : Id(new[i]) = Id(new[k]) => i = k
  BY <1>3, <1>6, <1>7, Zenon
<1> QED
  BY <1>1, <1>8, <1>9 DEF Filed, new, s, L

\* What deduplicateDependencies does, whatever the keys are.
LEMMA DedupPlaces ==
    ASSUME NEW S, NEW ds \in Seq(Deps(S))
    PROVE  /\ Dedup(ds) \in Seq(Deps(S)) /\ \E at : Placed(at, Dedup(ds), ds, Len(ds))
           /\ \A i, k \in 1..Len(Dedup(ds)) : Id(Dedup(ds)[i]) = Id(Dedup(ds)[k]) => i = k
<1> DEFINE N == Len(ds)
           f == DedupSteps(ds)
           Ok(n) == (\E at : Placed(at, f[n].out, ds, n)) /\ Filed(f[n].out, f[n].seen)
           Q == {n \in 0..N : Ok(n)}
<1>1. N \in Nat /\ \A n \in 1..N : ds[n] \in Deps(S)
  OBVIOUS
<1>2. /\ f[0] = NoneSeen /\ \A n \in 1..N : f[n] = AddDep(f[n - 1], ds[n])
      /\ \A n \in 0..N : f[n] \in Accs(ds, S)
  BY DedupStepsAre
<1> HIDE DEF f, N
<1>3. \A n \in 0..N : f[n].out \in Seq(Deps(S))
  BY <1>2 DEF Accs
<1>4. Ok(0)
  <2>1. f[0].out = <<>> /\ Len(<<>>) = 0
    BY <1>2 DEF NoneSeen
  <2>2. Filed(f[0].out, f[0].seen)
    BY <2>1 DEF Filed
  <2>3. \E at : Placed(at, f[0].out, ds, 0)
    <3> DEFINE at == [k \in 1..0 |-> 0]
    <3>1. at \in [1..0 -> 1..0]
      OBVIOUS
    <3>2. Placed(at, f[0].out, ds, 0)
      <4> HIDE DEF at
      <4> QED
        BY <2>1, <3>1 DEF Placed
    <3> QED
      BY <3>2
  <2> QED
    BY <2>2, <2>3
<1>5. ASSUME NEW n \in 1..N, Ok(n - 1)
      PROVE  Ok(n)
  <2> DEFINE acc == f[n - 1]
             d == ds[n]
  <2>1. n \in Nat \ {0} /\ n - 1 \in 0..N
    BY <1>1
  <2>2. acc.out \in Seq(Deps(S)) /\ d \in Deps(S) /\ f[n] = AddDep(acc, d) /\ Filed(acc.out, acc.seen)
    BY <1>1, <1>2, <1>3, <1>5, <2>1
  <2>3. PICK at : Placed(at, acc.out, ds, n - 1)
    BY <1>5
  <2> HIDE DEF acc
  <2>4. CASE ~Known(acc, d)
    <3>1. f[n] = [out |-> Append(acc.out, d), seen |-> Put(acc.seen, KeyFor(d), Len(acc.out) + 1)]
      BY <2>2, <2>4, AddDepIs
    <3>2. f[n].out = Append(acc.out, d) /\ f[n].seen = Put(acc.seen, KeyFor(d), Len(acc.out) + 1)
      BY <3>1
    <3>3. \E b : Placed(b, Append(acc.out, d), ds, n)
      BY <2>1, <2>2, <2>3, PlacedMore
    <3>4. Filed(Append(acc.out, d), Put(acc.seen, KeyFor(d), Len(acc.out) + 1))
      BY <2>2, <2>4, FiledMore
    <3> QED
      BY <3>2, <3>3, <3>4
  <2>5. CASE Made(acc, d)
    <3> DEFINE j == acc.seen[IndirectKey(d)]
               new == [acc.out EXCEPT ![j] = Directed(acc.out[j])]
               out == acc.out
    <3>1. f[n] = [out |-> new, seen |-> Put(acc.seen, DirectKey(d), j)]
      BY <2>2, <2>5, AddDepIs
    <3>2. f[n].out = new /\ f[n].seen = Put(acc.seen, DirectKey(d), j)
      BY <3>1
    <3>3. /\ new = [out EXCEPT ![j] = Directed(out[j])] /\ out \in Seq(Deps(S)) /\ Filed(out, acc.seen)
          /\ Placed(at, out, ds, n - 1)
      BY <2>2, <2>3
    <3> HIDE DEF new, j, out
    <3>4. Placed(at, new, ds, n) /\ Filed(new, Put(acc.seen, DirectKey(d), j))
      BY <2>1, <3>3, PlacedMade
    <3> QED
      BY <3>2, <3>4
  <2>6. CASE Known(acc, d) /\ ~Made(acc, d)
    <3>1. f[n] = acc
      BY <2>2, <2>6, AddDepIs
    <3>2. Placed(at, acc.out, ds, n)
      BY <2>1, <2>3, PlacedWider
    <3> QED
      BY <2>2, <3>1, <3>2
  <2> QED
    BY <2>4, <2>5, <2>6
<1> HIDE DEF Ok
<1>6. 0 \in Q /\ \A n \in 1..N : n - 1 \in Q => n \in Q
  BY <1>1, <1>4, <1>5
<1> HIDE DEF Q
<1>7. \A n \in 0..N : n \in Q
  BY <1>1, <1>6, Upto
<1>8. Ok(N) /\ f[N].out \in Seq(Deps(S))
  <2>1. N \in 0..N
    BY <1>1
  <2> QED
    BY <1>3, <1>7, <2>1 DEF Q
<1>9. Dedup(ds) = f[N].out
  BY DEF Dedup, f, N
<1> QED
  BY <1>8, <1>9 DEF Ok, N, Filed

\* Where the keys tell dependencies apart, what is seen says what is kept.
Unique(out) == \A i, k \in 1..Len(out) : Coord(out[i]) = Coord(out[k]) => i = k
Marks(out, seen, d) ==
    /\ DirectKey(d) \in DOMAIN seen <=> \E j \in 1..Len(out) : Coord(out[j]) = Coord(d) /\ ~Indirect(out[j])
    /\ IndirectKey(d) \in DOMAIN seen =>
          seen[IndirectKey(d)] \in 1..Len(out) /\ Coord(out[seen[IndirectKey(d)]]) = Coord(d)
    /\ InList(out, d) => DirectKey(d) \in DOMAIN seen \/ IndirectKey(d) \in DOMAIN seen

LEMMA ClashFree ==
    ASSUME NEW S, NEW ds \in Seq(Deps(S)), NoClash(ds), NEW i \in 1..Len(ds), NEW k \in 1..Len(ds)
    PROVE  /\ DirectKey(ds[i]) = DirectKey(ds[k]) <=> Coord(ds[i]) = Coord(ds[k])
           /\ IndirectKey(ds[i]) = IndirectKey(ds[k]) <=> Coord(ds[i]) = Coord(ds[k])
           /\ DirectKey(ds[i]) # IndirectKey(ds[k])
<1>1. ds[i] \in Deps(S) /\ ds[k] \in Deps(S)
  OBVIOUS
<1>2. /\ DirectKey(ds[i]) = DirectKey(ds[k]) <=> Id(ds[i]) = Id(ds[k])
      /\ IndirectKey(ds[i]) = IndirectKey(ds[k]) <=> Id(ds[i]) = Id(ds[k])
      /\ DirectKey(ds[i]) = IndirectKey(ds[k]) <=> Id(ds[i]) = Append(Id(ds[k]), "in")
  BY <1>1, KeysAre
<1>3. Id(ds[i]) = Id(ds[k]) => Coord(ds[i]) = Coord(ds[k])
  BY Zenon DEF NoClash
<1>4. Id(ds[i]) # Append(Id(ds[k]), "in")
  BY Zenon DEF NoClash
<1>5. Coord(ds[i]) = Coord(ds[k]) => Id(ds[i]) = Id(ds[k])
  <2> SUFFICES ASSUME Coord(ds[i]) = Coord(ds[k])
               PROVE  Id(ds[i]) = Id(ds[k])
    OBVIOUS
  <2>1. ds[i].name = ds[k].name /\ ds[i].ver = ds[k].ver /\ ds[i].res = ds[k].res
    BY DEF Coord
  <2> QED
    BY <2>1, Zenon DEF Id
<1> QED
  BY <1>2, <1>3, <1>4, <1>5, Zenon

LEMMA DirectedSame ==
    ASSUME NEW S, NEW d \in Deps(S), ~Indirect(d)
    PROVE  Directed(d) = d
<1> DEFINE e == Directed(d)
<1>1. e \in Deps(S) /\ SameDep(e, d) /\ ~Indirect(e)
  BY DirectedIs
<1> HIDE DEF e
<1>2. e = [d EXCEPT !.indirect = e.indirect]
  BY <1>1, SameDepIs
<1>3. d = [d EXCEPT !.indirect = d.indirect]
  BY DEF Deps
<1>4. e.indirect = d.indirect
  BY <1>1 DEF Indirect, Deps
<1> QED
  BY <1>2, <1>3, <1>4 DEF e

\* A turn that finds the dependency in the list.
LEMMA TurnMerges ==
    ASSUME NEW S, NEW ds \in Seq(Deps(S)), NoClash(ds), NEW n \in 1..Len(ds),
           NEW acc, acc.out \in Seq(Deps(S)), Unique(acc.out), Known(acc, ds[n]),
           \A i \in 1..Len(ds) : Marks(acc.out, acc.seen, ds[i]),
           NEW new, new = AddDep(acc, ds[n])
    PROVE  /\ new.out \in Seq(Deps(S)) /\ DepAdded(acc.out, ds[n], new.out) /\ Unique(new.out)
           /\ \A i \in 1..Len(ds) : Marks(new.out, new.seen, ds[i])
<1> DEFINE d == ds[n]
           out == acc.out
           seen == acc.seen
           L == Len(out)
           dk == DirectKey(d)
           ik == IndirectKey(d)
<1>0. d \in Deps(S) /\ L \in Nat /\ \A i \in 1..L : out[i] \in Deps(S)
  OBVIOUS
<1>1. /\ dk \in DOMAIN seen <=> \E j \in 1..L : Coord(out[j]) = Coord(d) /\ ~Indirect(out[j])
      /\ ik \in DOMAIN seen => seen[ik] \in 1..L /\ Coord(out[seen[ik]]) = Coord(d)
  BY DEF Marks
<1>2. PICK j \in 1..L : Coord(out[j]) = Coord(d) /\ (dk \in DOMAIN seen => ~Indirect(out[j]))
  BY <1>1, Zenon DEF Known
<1>3. \A i \in 1..L : Coord(out[i]) = Coord(d) => i = j
  BY <1>2, Zenon DEF Unique
<1>4. InList(out, d)
  BY <1>2 DEF InList
<1>5. CASE ~Made(acc, d)
  <2>1. new = acc
    BY <1>5, AddDepIs
  <2>2. ~Indirect(d) => dk \in DOMAIN seen
    BY <1>5 DEF Made, Known
  <2>3. ~Indirect(d) => Directed(out[j]) = out[j]
    BY <1>0, <1>2, <2>2, DirectedSame
  <2>4. Merged(out, d, out)
    BY <1>3, <2>3, Zenon DEF Merged
  <2> QED
    BY <1>4, <2>1, <2>4 DEF DepAdded
<1>6. CASE Made(acc, d)
  <2> DEFINE o == [out EXCEPT ![j] = Directed(out[j])]
  <2>1. seen[ik] = j /\ ~Indirect(d) /\ dk \notin DOMAIN seen /\ ik \in DOMAIN seen
    BY <1>1, <1>3, <1>6 DEF Made
  <2>2. new = [out |-> o, seen |-> Put(seen, dk, j)]
    BY <1>6, <2>1, AddDepIs, Zenon
  <2>3. /\ o \in Seq(Deps(S)) /\ Len(o) = L
        /\ \A i \in 1..L : o[i] = IF i = j THEN Directed(out[i]) ELSE out[i]
    BY DirectedAt
  <2> HIDE DEF o
  <2>4. new.out = o /\ new.seen = Put(seen, dk, j)
    BY <2>2
  <2>5. Coord(o[j]) = Coord(d) /\ ~Indirect(o[j]) /\ \A i \in 1..L : Coord(o[i]) = Coord(out[i])
    <3>1. SameDep(Directed(out[j]), out[j]) /\ ~Indirect(Directed(out[j]))
      BY <1>0, DirectedIs
    <3>2. Coord(Directed(out[j])) = Coord(out[j])
      BY <3>1, SameCoord
    <3> QED
      BY <1>2, <2>3, <3>1, <3>2
  <2>6. Merged(out, d, o)
    BY <1>2, <1>3, <2>1, <2>3, Zenon DEF Merged
  <2>7. Unique(o)
    BY <2>3, <2>5, Zenon DEF Unique
  <2>8. /\ DOMAIN new.seen = DOMAIN seen \cup {dk} /\ new.seen[dk] = j
        /\ \A x \in DOMAIN seen : x # dk => new.seen[x] = seen[x]
    <3>1. /\ DOMAIN Put(seen, dk, j) = DOMAIN seen \cup {dk} /\ Put(seen, dk, j)[dk] = j
          /\ \A x \in DOMAIN seen : x # dk => Put(seen, dk, j)[x] = seen[x]
      <4> HIDE DEF seen, dk
      <4> QED
        BY DEF Put
    <3> QED
      BY <2>4, <3>1, Zenon
  <2>9. ASSUME NEW i \in 1..Len(ds)
        PROVE  Marks(o, new.seen, ds[i])
    <3> DEFINE e == ds[i]
               DK == DirectKey(e)
               IK == IndirectKey(e)
    <3>1. /\ DK \in DOMAIN seen <=> \E h \in 1..L : Coord(out[h]) = Coord(e) /\ ~Indirect(out[h])
          /\ IK \in DOMAIN seen => seen[IK] \in 1..L /\ Coord(out[seen[IK]]) = Coord(e)
          /\ InList(out, e) => DK \in DOMAIN seen \/ IK \in DOMAIN seen
      BY DEF Marks
    <3>2. (DK = dk <=> Coord(e) = Coord(d)) /\ IK # dk
      BY ClashFree
    <3> HIDE DEF e, DK, IK, dk, ik, d
    <3>3. DK \in DOMAIN new.seen <=> \E h \in 1..L : Coord(o[h]) = Coord(e) /\ ~Indirect(o[h])
      <4>1. CASE Coord(e) = Coord(d)
        BY <2>5, <2>8, <3>2, <4>1
      <4>2. CASE Coord(e) # Coord(d)
        <5>1. DK \in DOMAIN new.seen <=> DK \in DOMAIN seen
          BY <2>8, <3>2, <4>2
        <5>2. \A h \in 1..L : Coord(out[h]) = Coord(e) => h # j
          BY <1>2, <4>2
        <5> QED
          BY <2>3, <2>5, <3>1, <5>1, <5>2
      <4> QED
        BY <4>1, <4>2
    <3>4. IK \in DOMAIN new.seen => new.seen[IK] \in 1..L /\ Coord(o[new.seen[IK]]) = Coord(e)
      BY <2>5, <2>8, <3>1, <3>2
    <3>5. InList(o, e) => DK \in DOMAIN new.seen \/ IK \in DOMAIN new.seen
      <4>1. InList(o, e) => InList(out, e)
        BY <2>3, <2>5 DEF InList
      <4> QED
        BY <2>8, <3>1, <4>1
    <3> QED
      BY <2>3, <3>3, <3>4, <3>5 DEF Marks, e, DK, IK
  <2> QED
    BY <1>4, <2>3, <2>4, <2>6, <2>7, <2>9 DEF DepAdded
<1> QED
  BY <1>5, <1>6

\* A turn that does not.
LEMMA TurnAdds ==
    ASSUME NEW S, NEW ds \in Seq(Deps(S)), NoClash(ds), NEW n \in 1..Len(ds),
           NEW acc, acc.out \in Seq(Deps(S)), Unique(acc.out), ~Known(acc, ds[n]),
           \A i \in 1..Len(ds) : Marks(acc.out, acc.seen, ds[i]),
           NEW new, new = AddDep(acc, ds[n])
    PROVE  /\ new.out \in Seq(Deps(S)) /\ DepAdded(acc.out, ds[n], new.out) /\ Unique(new.out)
           /\ \A i \in 1..Len(ds) : Marks(new.out, new.seen, ds[i])
<1> DEFINE d == ds[n]
           out == acc.out
           seen == acc.seen
           L == Len(out)
           o == Append(out, d)
           key == KeyFor(d)
<1>0. d \in Deps(S) /\ L \in Nat
  OBVIOUS
<1>1. ~InList(out, d)
  BY Zenon DEF Marks, Known
<1>2. new = [out |-> o, seen |-> Put(seen, key, L + 1)]
  BY AddDepIs
<1>3. /\ o \in Seq(Deps(S)) /\ Len(o) = L + 1
      /\ \A k \in 1..L + 1 : o[k] = IF k = L + 1 THEN d ELSE out[k]
  <2>1. out \in Seq(Deps(S))
    OBVIOUS
  <2> HIDE DEF out, d
  <2> QED
    BY <1>0, <2>1, Appended
<1> HIDE DEF o
<1>4. new.out = o /\ new.seen = Put(seen, key, L + 1)
  BY <1>2
<1>5. /\ DOMAIN new.seen = DOMAIN seen \cup {key} /\ new.seen[key] = L + 1
      /\ \A x \in DOMAIN seen : x # key => new.seen[x] = seen[x]
  <2>1. /\ DOMAIN Put(seen, key, L + 1) = DOMAIN seen \cup {key} /\ Put(seen, key, L + 1)[key] = L + 1
        /\ \A x \in DOMAIN seen : x # key => Put(seen, key, L + 1)[x] = seen[x]
    <3> HIDE DEF seen, key, L
    <3> QED
      BY DEF Put
  <2> QED
    BY <1>4, <2>1, Zenon
<1>6. \A k \in 1..L + 1 : k = L + 1 \/ k \in 1..L
  <2> HIDE DEF L
  <2> QED
    BY <1>0
<1>7. L + 1 \in 1..L + 1 /\ \A k \in 1..L : k \in 1..L + 1 /\ k # L + 1
  <2> HIDE DEF L
  <2> QED
    BY <1>0
<1>8. o[L + 1] = d /\ \A k \in 1..L : o[k] = out[k]
  BY <1>3, <1>7
<1>9. Unique(o)
  <2>1. \A k \in 1..L : Coord(out[k]) # Coord(d)
    BY <1>1 DEF InList
  <2>2. ASSUME NEW i \in 1..L + 1, NEW k \in 1..L + 1, Coord(o[i]) = Coord(o[k])
        PROVE  i = k
    <3>1. CASE i \in 1..L /\ k \in 1..L
      <4>1. Coord(out[i]) = Coord(out[k])
        BY <1>8, <2>2, <3>1
      <4> QED
        BY <3>1, <4>1, Zenon DEF Unique
    <3>2. CASE i = L + 1 \/ k = L + 1
      BY <1>6, <1>8, <2>1, <2>2, <3>2, Zenon
    <3> QED
      BY <1>6, <3>1, <3>2
  <2> QED
    BY <1>3, <2>2 DEF Unique
<1>10. ASSUME NEW i \in 1..Len(ds)
       PROVE  Marks(o, new.seen, ds[i])
  <2> DEFINE e == ds[i]
             DK == DirectKey(e)
             IK == IndirectKey(e)
  <2>1. /\ DK \in DOMAIN seen <=> \E h \in 1..L : Coord(out[h]) = Coord(e) /\ ~Indirect(out[h])
        /\ IK \in DOMAIN seen => seen[IK] \in 1..L /\ Coord(out[seen[IK]]) = Coord(e)
        /\ InList(out, e) => DK \in DOMAIN seen \/ IK \in DOMAIN seen
    BY DEF Marks
  <2>2. /\ DK = key <=> ~Indirect(d) /\ Coord(e) = Coord(d)
        /\ IK = key <=> Indirect(d) /\ Coord(e) = Coord(d)
    <3>1. /\ DK = DirectKey(d) <=> Coord(e) = Coord(d)
          /\ IK = IndirectKey(d) <=> Coord(e) = Coord(d)
          /\ DK # IndirectKey(d)
      BY ClashFree
    <3>2. DirectKey(d) # IK
      BY ClashFree
    <3> HIDE DEF d, DK, IK
    <3> QED
      BY <3>1, <3>2 DEF KeyFor
  <2> HIDE DEF e, DK, IK, key, d, L
  <2>3. DK \in DOMAIN new.seen <=> \E h \in 1..L + 1 : Coord(o[h]) = Coord(e) /\ ~Indirect(o[h])
    <3>1. (\E h \in 1..L + 1 : Coord(o[h]) = Coord(e) /\ ~Indirect(o[h]))
            <=> \/ Coord(d) = Coord(e) /\ ~Indirect(d)
                \/ \E h \in 1..L : Coord(out[h]) = Coord(e) /\ ~Indirect(out[h])
      BY <1>6, <1>7, <1>8
    <3> QED
      BY <1>5, <2>1, <2>2, <3>1
  <2>4. IK \in DOMAIN new.seen => new.seen[IK] \in 1..L + 1 /\ Coord(o[new.seen[IK]]) = Coord(e)
    <3>1. CASE IK = key
      BY <1>5, <1>7, <1>8, <2>2, <3>1
    <3>2. CASE IK # key
      BY <1>5, <1>7, <1>8, <2>1, <3>2
    <3> QED
      BY <3>1, <3>2
  <2>5. InList(o, e) => DK \in DOMAIN new.seen \/ IK \in DOMAIN new.seen
    <3>1. InList(o, e) => InList(out, e) \/ Coord(d) = Coord(e)
      BY <1>3, <1>6, <1>8 DEF InList, L
    <3> QED
      BY <1>5, <2>1, <2>2, <3>1
  <2> QED
    BY <1>3, <2>3, <2>4, <2>5 DEF Marks, e, DK, IK
<1> QED
  BY <1>1, <1>3, <1>4, <1>9, <1>10 DEF DepAdded, o

LEMMA DedupLoops ==
    ASSUME NEW S, NEW ds \in Seq(Deps(S)), NoClash(ds)
    PROVE  DedupLoop(Outs(ds), ds, S)
<1> DEFINE N == Len(ds)
           f == DedupSteps(ds)
           Ok(n) == f[n].out \in Seq(Deps(S)) /\ Unique(f[n].out) /\ \A i \in 1..N : Marks(f[n].out, f[n].seen, ds[i])
           Q == {n \in 0..N : Ok(n)}
<1>1. N \in Nat
  OBVIOUS
<1>2. f[0] = NoneSeen /\ \A n \in 1..N : f[n] = AddDep(f[n - 1], ds[n])
  BY DedupStepsAre
<1> HIDE DEF f
<1>3. Ok(0)
  <2>1. f[0].out = <<>> /\ f[0].seen = <<>> /\ DOMAIN <<>> = {}
    BY <1>2 DEF NoneSeen
  <2>2. Unique(<<>>) /\ <<>> \in Seq(Deps(S))
    BY DEF Unique
  <2>3. \A d : Marks(<<>>, <<>>, d)
    BY <2>1 DEF Marks, InList
  <2> QED
    BY <2>1, <2>2, <2>3
<1>4. ASSUME NEW n \in 1..N, Ok(n - 1)
      PROVE  Ok(n) /\ DepAdded(f[n - 1].out, ds[n], f[n].out)
  <2>1. f[n] = AddDep(f[n - 1], ds[n])
    BY <1>2
  <2> DEFINE acc == f[n - 1]
             new == f[n]
  <2>2. /\ acc.out \in Seq(Deps(S)) /\ Unique(acc.out) /\ new = AddDep(acc, ds[n])
        /\ \A i \in 1..Len(ds) : Marks(acc.out, acc.seen, ds[i])
    BY <1>4, <2>1
  <2> HIDE DEF acc, new
  <2>3. CASE Known(acc, ds[n])
    <3>1. /\ new.out \in Seq(Deps(S)) /\ DepAdded(acc.out, ds[n], new.out) /\ Unique(new.out)
          /\ \A i \in 1..Len(ds) : Marks(new.out, new.seen, ds[i])
      BY <2>2, <2>3, TurnMerges
    <3> QED
      BY <3>1 DEF acc, new
  <2>4. CASE ~Known(acc, ds[n])
    <3>1. /\ new.out \in Seq(Deps(S)) /\ DepAdded(acc.out, ds[n], new.out) /\ Unique(new.out)
          /\ \A i \in 1..Len(ds) : Marks(new.out, new.seen, ds[i])
      BY <2>2, <2>4, TurnAdds
    <3> QED
      BY <3>1 DEF acc, new
  <2> QED
    BY <2>3, <2>4
<1> HIDE DEF Ok, N
<1>5. 0 \in Q /\ \A n \in 1..N : n - 1 \in Q => n \in Q
  BY <1>1, <1>3, <1>4
<1>6. \A n \in 0..N : n \in Q
  <2> HIDE DEF Q
  <2> QED
    BY <1>1, <1>5, Upto
<1> DEFINE g == Outs(ds)
<1>7. \A n \in 0..N : g[n] = f[n].out
  BY DEF Outs, f, N
<1>8. g[0] = <<>>
  BY <1>1, <1>2, <1>7 DEF NoneSeen
<1> HIDE DEF g
<1>9. ASSUME NEW n \in 1..N
      PROVE  g[n] \in Seq(Deps(S)) /\ DepAdded(g[n - 1], ds[n], g[n])
  <2>1. n \in 0..N /\ n - 1 \in 0..N
    BY <1>1
  <2>2. g[n] = f[n].out /\ g[n - 1] = f[n - 1].out /\ Ok(n) /\ Ok(n - 1)
    BY <1>6, <1>7, <2>1
  <2>3. DepAdded(f[n - 1].out, ds[n], f[n].out)
    BY <1>4, <2>2
  <2> QED
    BY <2>2, <2>3 DEF Ok
<1> QED
  BY <1>8, <1>9 DEF DedupLoop, g, N

FirstOne(ds, i) == \A h \in 1..i - 1 : Coord(ds[h]) # Coord(ds[i])

\* out[k] stands for the dependency at[k] of the first n.
Deduped(at, out, ds, n) ==
    /\ at \in [1..Len(out) -> 1..n]
    /\ \A i, k \in 1..Len(out) : i < k => at[i] < at[k]
    /\ \A k \in 1..Len(out) : SameDep(out[k], ds[at[k]])
    /\ \A i \in 1..n : FirstOne(ds, i) <=> \E k \in 1..Len(out) : at[k] = i

AllIndirect(ds, n, d) == \A i \in 1..n : Coord(ds[i]) = Coord(d) => Indirect(ds[i])

Directs(out, ds, n) == \A k \in 1..Len(out) : Indirect(out[k]) <=> AllIndirect(ds, n, out[k])

\* The first of those alike is in the list.
LEMMA FirstFound ==
    ASSUME NEW ds, NEW n \in Nat, NEW at, NEW out, Deduped(at, out, ds, n), NEW i \in 1..n
    PROVE  \E k \in 1..Len(out) : at[k] \in 1..i /\ Coord(out[k]) = Coord(ds[i])
<1> DEFINE T == {h \in 1..i : Coord(ds[h]) = Coord(ds[i])}
<1>1. T \subseteq Nat /\ T # {}
  <2>1. i \in T
    OBVIOUS
  <2> QED
    BY <2>1
<1>2. PICK h \in T : \A g \in T : h =< g
  <2> HIDE DEF T
  <2> QED
    BY <1>1, Least
<1>3. h \in 1..i /\ h \in 1..n /\ Coord(ds[h]) = Coord(ds[i])
  OBVIOUS
<1>4. FirstOne(ds, h)
  <2> SUFFICES ASSUME NEW g \in 1..h - 1, Coord(ds[g]) = Coord(ds[h])
               PROVE  FALSE
    BY DEF FirstOne
  <2>1. g \in 1..i /\ ~(h =< g)
    BY <1>3
  <2>2. g \in T
    BY <1>3, <2>1
  <2> QED
    BY <1>2, <2>1, <2>2
<1>5. PICK k \in 1..Len(out) : at[k] = h
  BY <1>3, <1>4 DEF Deduped
<1>6. Coord(out[k]) = Coord(ds[h])
  <2>1. SameDep(out[k], ds[h])
    BY <1>5 DEF Deduped
  <2> QED
    BY <2>1, SameCoord
<1> QED
  BY <1>3, <1>5, <1>6

LEMMA NewIsFirst ==
    ASSUME NEW ds, NEW n \in Nat \ {0}, NEW at, NEW out, Deduped(at, out, ds, n - 1)
    PROVE  FirstOne(ds, n) <=> ~InList(out, ds[n])
<1>1. ASSUME InList(out, ds[n])
      PROVE  ~FirstOne(ds, n)
  <2>1. PICK k \in 1..Len(out) : Coord(out[k]) = Coord(ds[n])
    BY <1>1 DEF InList
  <2>2. at[k] \in 1..n - 1 /\ SameDep(out[k], ds[at[k]])
    BY DEF Deduped
  <2>3. Coord(ds[at[k]]) = Coord(ds[n])
    BY <2>1, <2>2, SameCoord
  <2> QED
    BY <2>2, <2>3 DEF FirstOne
<1>2. ASSUME ~FirstOne(ds, n)
      PROVE  InList(out, ds[n])
  <2>1. PICK h \in 1..n - 1 : Coord(ds[h]) = Coord(ds[n])
    BY <1>2 DEF FirstOne
  <2>2. n - 1 \in Nat
    OBVIOUS
  <2>3. PICK k \in 1..Len(out) : Coord(out[k]) = Coord(ds[h])
    BY <2>2, FirstFound
  <2> QED
    BY <2>1, <2>3 DEF InList
<1> QED
  BY <1>1, <1>2

LEMMA DedupedSame ==
    ASSUME NEW S, NEW ds, NEW n \in Nat \ {0}, NEW at, NEW out \in Seq(Deps(S)), NEW new,
           Deduped(at, out, ds, n - 1), InList(out, ds[n]), Merged(out, ds[n], new)
    PROVE  Deduped(at, new, ds, n)
<1> DEFINE L == Len(out)
<1>1. Len(new) = L
  BY DEF Merged
<1>2. \A k \in 1..L : at[k] \in 1..n - 1
  BY DEF Deduped
<1>3. at \in [1..L -> 1..n]
  <2>1. \A k \in 1..L : at[k] \in 1..n
    BY <1>2
  <2> QED
    BY <2>1 DEF Deduped
<1>4. ASSUME NEW k \in 1..L
      PROVE  SameDep(new[k], ds[at[k]])
  <2>1. SameDep(out[k], ds[at[k]]) /\ out[k] \in Deps(S)
    BY DEF Deduped
  <2>2. new[k] = out[k] \/ new[k] = Directed(out[k])
    BY DEF Merged
  <2>3. SameDep(Directed(out[k]), out[k])
    BY <2>1, DirectedIs
  <2>4. SameDep(Directed(out[k]), ds[at[k]])
    BY <2>1, <2>3, SameDepTrans
  <2> QED
    BY <2>1, <2>2, <2>4
<1>5. ASSUME NEW i \in 1..n
      PROVE  FirstOne(ds, i) <=> \E k \in 1..L : at[k] = i
  <2>1. CASE i = n
    <3>1. ~FirstOne(ds, n)
      BY NewIsFirst
    <3>2. \A k \in 1..L : at[k] # n
      BY <1>2
    <3> QED
      BY <2>1, <3>1, <3>2
  <2>2. CASE i # n
    <3>1. i \in 1..n - 1
      BY <2>2
    <3> QED
      BY <3>1 DEF Deduped
  <2> QED
    BY <2>1, <2>2
<1>6. \A i, k \in 1..L : i < k => at[i] < at[k]
  BY DEF Deduped
<1> HIDE DEF L
<1> QED
  BY <1>1, <1>3, <1>4, <1>5, <1>6 DEF Deduped

LEMMA DedupedMore ==
    ASSUME NEW S, NEW ds, NEW n \in Nat \ {0}, ds[n] \in Deps(S), NEW at, NEW out \in Seq(Deps(S)),
           Deduped(at, out, ds, n - 1), ~InList(out, ds[n])
    PROVE  \E b : Deduped(b, Append(out, ds[n]), ds, n)
<1> DEFINE L == Len(out)
           new == Append(out, ds[n])
           b == [k \in 1..L + 1 |-> IF k = L + 1 THEN n ELSE at[k]]
<1>1. /\ L \in Nat /\ Len(new) = L + 1
      /\ \A k \in 1..L + 1 : new[k] = IF k = L + 1 THEN ds[n] ELSE out[k]
  BY Appended
<1> HIDE DEF new, L
<1>2. ASSUME NEW k \in 1..L + 1
      PROVE  \/ k = L + 1 /\ b[k] = n /\ new[k] = ds[n]
             \/ k \in 1..L /\ b[k] = at[k] /\ new[k] = out[k] /\ b[k] \in 1..n - 1
  <2>1. CASE k = L + 1
    BY <1>1, <2>1
  <2>2. CASE k # L + 1
    <3>1. k \in 1..L
      BY <1>1, <2>2
    <3>2. at[k] \in 1..n - 1
      BY <3>1 DEF Deduped, L
    <3> QED
      BY <1>1, <2>2, <3>1, <3>2
  <2> QED
    BY <2>1, <2>2
<1>3. b \in [1..L + 1 -> 1..n]
  <2>1. \A k \in 1..L + 1 : b[k] \in 1..n
    BY <1>2
  <2>2. b = [k \in 1..L + 1 |-> b[k]]
    OBVIOUS
  <2> HIDE DEF b
  <2> QED
    BY <2>1, <2>2
<1>4. \A k \in 1..L : k \in 1..L + 1 /\ b[k] = at[k]
  BY <1>1
<1>5. L + 1 \in 1..L + 1 /\ b[L + 1] = n
  BY <1>1
<1> HIDE DEF b
<1>6. ASSUME NEW k \in 1..L + 1
      PROVE  SameDep(new[k], ds[b[k]])
  <2>1. CASE k = L + 1 /\ b[k] = n /\ new[k] = ds[n]
    BY <2>1 DEF SameDep
  <2>2. CASE k \in 1..L /\ b[k] = at[k] /\ new[k] = out[k]
    BY <2>2 DEF Deduped, L
  <2> QED
    BY <1>2, <2>1, <2>2
<1>7. ASSUME NEW i \in 1..L + 1, NEW k \in 1..L + 1, i < k
      PROVE  b[i] < b[k]
  <2>1. i \in 1..L /\ b[i] = at[i] /\ b[i] \in 1..n - 1
    BY <1>1, <1>2, <1>7
  <2>2. CASE k = L + 1 /\ b[k] = n
    BY <2>1, <2>2
  <2>3. CASE k \in 1..L /\ b[k] = at[k]
    BY <1>7, <2>1, <2>3 DEF Deduped, L
  <2> QED
    BY <1>2, <2>2, <2>3
<1>8. ASSUME NEW i \in 1..n
      PROVE  FirstOne(ds, i) <=> \E k \in 1..L + 1 : b[k] = i
  <2>1. CASE i = n
    <3>1. FirstOne(ds, n)
      BY NewIsFirst
    <3> QED
      BY <1>5, <2>1, <3>1
  <2>2. CASE i # n
    <3>1. i \in 1..n - 1
      BY <2>2
    <3>2. FirstOne(ds, i) <=> \E k \in 1..L : at[k] = i
      BY <3>1 DEF Deduped, L
    <3>3. \A k \in 1..L + 1 : b[k] = i => k \in 1..L /\ at[k] = i
      BY <1>2, <2>2
    <3> QED
      BY <1>4, <3>2, <3>3
  <2> QED
    BY <2>1, <2>2
<1>9. Deduped(b, new, ds, n)
  BY <1>1, <1>3, <1>6, <1>7, <1>8 DEF Deduped
<1> QED
  BY <1>9 DEF new

LEMMA DirectsSame ==
    ASSUME NEW S, NEW ds, NEW n \in Nat \ {0}, NEW out \in Seq(Deps(S)), NEW new,
           Directs(out, ds, n - 1), Merged(out, ds[n], new)
    PROVE  Directs(new, ds, n)
<1>1. Len(new) = Len(out)
  BY DEF Merged
<1> SUFFICES ASSUME NEW k \in 1..Len(out)
             PROVE  Indirect(new[k]) <=> AllIndirect(ds, n, new[k])
  BY <1>1 DEF Directs
<1>2. out[k] \in Deps(S) /\ (Indirect(out[k]) <=> AllIndirect(ds, n - 1, out[k]))
  BY DEF Directs
<1>3. \A d : AllIndirect(ds, n, d) <=> AllIndirect(ds, n - 1, d) /\ (Coord(ds[n]) = Coord(d) => Indirect(ds[n]))
  <2>1. \A i \in 1..n : i = n \/ i \in 1..n - 1
    OBVIOUS
  <2>2. n \in 1..n /\ \A i \in 1..n - 1 : i \in 1..n
    OBVIOUS
  <2> QED
    BY <2>1, <2>2 DEF AllIndirect
<1>4. CASE Coord(out[k]) = Coord(ds[n]) /\ ~Indirect(ds[n])
  <2>1. new[k] = Directed(out[k])
    BY <1>4 DEF Merged
  <2>2. Coord(new[k]) = Coord(ds[n]) /\ ~Indirect(new[k])
    <3>1. SameDep(Directed(out[k]), out[k]) /\ ~Indirect(Directed(out[k]))
      BY <1>2, DirectedIs
    <3> QED
      BY <1>4, <2>1, <3>1, SameCoord
  <2> QED
    BY <1>3, <1>4, <2>2
<1>5. CASE ~(Coord(out[k]) = Coord(ds[n]) /\ ~Indirect(ds[n]))
  <2>1. new[k] = out[k]
    BY <1>5 DEF Merged
  <2> QED
    BY <1>2, <1>3, <1>5, <2>1
<1> QED
  BY <1>4, <1>5

LEMMA DirectsMore ==
    ASSUME NEW S, NEW ds, NEW n \in Nat \ {0}, ds[n] \in Deps(S), NEW at, NEW out \in Seq(Deps(S)),
           Deduped(at, out, ds, n - 1), Directs(out, ds, n - 1), ~InList(out, ds[n])
    PROVE  Directs(Append(out, ds[n]), ds, n)
<1> DEFINE L == Len(out)
           new == Append(out, ds[n])
<1>1. /\ L \in Nat /\ Len(new) = L + 1
      /\ \A k \in 1..L + 1 : new[k] = IF k = L + 1 THEN ds[n] ELSE out[k]
  BY Appended
<1> HIDE DEF new, L
<1>2. \A i \in 1..n : i = n \/ i \in 1..n - 1
  OBVIOUS
<1>3. n \in 1..n /\ \A i \in 1..n - 1 : i \in 1..n
  OBVIOUS
<1>4. ASSUME NEW k \in 1..L + 1
      PROVE  Indirect(new[k]) <=> AllIndirect(ds, n, new[k])
  <2>1. CASE k = L + 1
    <3>1. new[k] = ds[n]
      BY <1>1, <2>1
    <3>2. FirstOne(ds, n)
      BY NewIsFirst
    <3>3. \A i \in 1..n : Coord(ds[i]) = Coord(ds[n]) => ds[i] = ds[n]
      BY <1>2, <3>2 DEF FirstOne
    <3> QED
      BY <1>3, <3>1, <3>3 DEF AllIndirect
  <2>2. CASE k # L + 1
    <3>1. k \in 1..L /\ new[k] = out[k]
      BY <1>1, <2>2
    <3>2. Indirect(out[k]) <=> AllIndirect(ds, n - 1, out[k])
      BY <3>1 DEF Directs, L
    <3>3. Coord(ds[n]) # Coord(out[k])
      BY <3>1 DEF InList, L
    <3> QED
      BY <1>2, <1>3, <3>1, <3>2, <3>3 DEF AllIndirect
  <2> QED
    BY <2>1, <2>2
<1>5. Directs(new, ds, n)
  BY <1>1, <1>4 DEF Directs
<1> QED
  BY <1>5 DEF new

\* What deduplicateDependencies makes of the list of a file.
DedupedTo(ds, out, S) ==
    /\ out \in Seq(Deps(S))
    /\ \E at : Deduped(at, out, ds, Len(ds))
    /\ Directs(out, ds, Len(ds))

LEMMA DedupIs ==
    ASSUME NEW S, NEW ds \in Seq(Deps(S)), NoClash(ds)
    PROVE  DedupedTo(ds, Dedup(ds), S)
<1> DEFINE N == Len(ds)
           f == Outs(ds)
           Ok(n) == f[n] \in Seq(Deps(S)) /\ (\E at : Deduped(at, f[n], ds, n)) /\ Directs(f[n], ds, n)
           Q == {n \in 0..N : Ok(n)}
<1>1. N \in Nat /\ \A n \in 1..N : ds[n] \in Deps(S)
  OBVIOUS
<1>2. f[0] = <<>> /\ \A n \in 1..N : f[n] \in Seq(Deps(S)) /\ DepAdded(f[n - 1], ds[n], f[n])
  <2>1. DedupLoop(f, ds, S)
    BY DedupLoops
  <2> HIDE DEF f
  <2> QED
    BY <2>1 DEF DedupLoop
<1> HIDE DEF f, N
<1>3. Ok(0)
  <2>1. f[0] \in Seq(Deps(S)) /\ Len(f[0]) = 0
    BY <1>2
  <2>2. Directs(f[0], ds, 0)
    BY <2>1 DEF Directs
  <2>3. \E at : Deduped(at, f[0], ds, 0)
    <3> DEFINE at == [k \in 1..0 |-> 0]
    <3>1. at \in [1..0 -> 1..0]
      OBVIOUS
    <3>2. Deduped(at, f[0], ds, 0)
      <4> HIDE DEF at
      <4> QED
        BY <2>1, <3>1 DEF Deduped
    <3> QED
      BY <3>2
  <2> QED
    BY <2>1, <2>2, <2>3
<1>4. ASSUME NEW n \in 1..N, Ok(n - 1)
      PROVE  Ok(n)
  <2> DEFINE acc == f[n - 1]
             d == ds[n]
  <2>1. /\ n \in Nat \ {0} /\ acc \in Seq(Deps(S)) /\ d \in Deps(S)
        /\ f[n] \in Seq(Deps(S)) /\ DepAdded(acc, d, f[n])
    BY <1>1, <1>2, <1>4
  <2>2. PICK at : Deduped(at, acc, ds, n - 1)
    BY <1>4
  <2>3. Directs(acc, ds, n - 1)
    BY <1>4
  <2> HIDE DEF acc
  <2>4. (~InList(acc, d) => f[n] = Append(acc, d)) /\ (InList(acc, d) => Merged(acc, d, f[n]))
    BY <2>1 DEF DepAdded
  <2>5. CASE InList(acc, d)
    <3>1. Merged(acc, d, f[n])
      BY <2>1, <2>4, <2>5
    <3>2. Deduped(at, f[n], ds, n)
      BY <2>1, <2>2, <2>5, <3>1, DedupedSame
    <3>3. Directs(f[n], ds, n)
      BY <2>1, <2>3, <3>1, DirectsSame
    <3> QED
      BY <2>1, <2>4, <3>2, <3>3
  <2>6. CASE ~InList(acc, d)
    <3>1. f[n] = Append(acc, d)
      BY <2>1, <2>4, <2>6
    <3>2. \E b : Deduped(b, Append(acc, d), ds, n)
      BY <2>1, <2>2, <2>6, DedupedMore
    <3>3. Directs(Append(acc, d), ds, n)
      BY <2>1, <2>2, <2>3, <2>6, DirectsMore
    <3> QED
      BY <2>1, <2>4, <3>1, <3>2, <3>3
  <2> QED
    BY <2>5, <2>6
<1> HIDE DEF Ok
<1>5. 0 \in Q /\ \A n \in 1..N : n - 1 \in Q => n \in Q
  BY <1>1, <1>3, <1>4
<1> HIDE DEF Q
<1>6. \A n \in 0..N : n \in Q
  BY <1>1, <1>5, Upto
<1>7. Ok(N)
  <2>1. N \in 0..N
    BY <1>1
  <2> QED
    BY <1>6, <2>1 DEF Q
<1>8. Dedup(ds) = f[N]
  BY <1>1 DEF Dedup, Outs, f, N
<1> QED
  BY <1>7, <1>8 DEF Ok, DedupedTo, N

\* A list without two alike stays as it is.
LEMMA DedupKeeps ==
    ASSUME NEW S, NEW ds \in Seq(Deps(S)), NoClash(ds),
           \A i, k \in 1..Len(ds) : Coord(ds[i]) = Coord(ds[k]) => i = k
    PROVE  Dedup(ds) = ds
<1> DEFINE N == Len(ds)
           f == Outs(ds)
           Ok(n) == f[n] \in Seq(Deps(S)) /\ Len(f[n]) = n /\ \A k \in 1..n : f[n][k] = ds[k]
           Q == {n \in 0..N : Ok(n)}
<1>1. N \in Nat /\ \A n \in 1..N : ds[n] \in Deps(S)
  OBVIOUS
<1>2. f[0] = <<>> /\ \A n \in 1..N : f[n] \in Seq(Deps(S)) /\ DepAdded(f[n - 1], ds[n], f[n])
  <2>1. DedupLoop(f, ds, S)
    BY DedupLoops
  <2> HIDE DEF f
  <2> QED
    BY <2>1 DEF DedupLoop
<1>0. \A i, k \in 1..N : Coord(ds[i]) = Coord(ds[k]) => i = k
  OBVIOUS
<1> HIDE DEF f, N
<1>3. Ok(0)
  BY <1>2
<1>4. ASSUME NEW n \in 1..N, Ok(n - 1)
      PROVE  Ok(n)
  <2> DEFINE acc == f[n - 1]
             d == ds[n]
  <2>1. /\ acc \in Seq(Deps(S)) /\ d \in Deps(S) /\ DepAdded(acc, d, f[n])
        /\ Len(acc) = n - 1 /\ \A k \in 1..n - 1 : acc[k] = ds[k]
    BY <1>1, <1>2, <1>4
  <2> HIDE DEF acc
  <2>2. ~InList(acc, d)
    <3> SUFFICES ASSUME NEW k \in 1..n - 1, Coord(ds[k]) = Coord(ds[n])
                 PROVE  FALSE
      BY <2>1 DEF InList
    <3>1. k \in 1..N /\ k # n
      BY <1>1
    <3> QED
      BY <1>0, <3>1
  <2>3. f[n] = Append(acc, d)
    BY <2>1, <2>2 DEF DepAdded
  <2>4. /\ Append(acc, d) \in Seq(Deps(S)) /\ Len(Append(acc, d)) = n
        /\ \A k \in 1..n : Append(acc, d)[k] = IF k = n THEN d ELSE acc[k]
    <3>1. /\ Append(acc, d) \in Seq(Deps(S)) /\ Len(Append(acc, d)) = Len(acc) + 1
          /\ \A k \in 1..Len(acc) + 1 : Append(acc, d)[k] = IF k = Len(acc) + 1 THEN d ELSE acc[k]
      BY <2>1, Appended
    <3>2. Len(acc) + 1 = n
      BY <2>1
    <3> QED
      BY <3>1, <3>2
  <2>5. ASSUME NEW k \in 1..n
        PROVE  f[n][k] = ds[k]
    <3>1. CASE k = n
      BY <2>3, <2>4, <3>1
    <3>2. CASE k # n
      <4>1. k \in 1..n - 1
        BY <3>2
      <4> QED
        BY <2>1, <2>3, <2>4, <3>2, <4>1
    <3> QED
      BY <3>1, <3>2
  <2> QED
    BY <2>3, <2>4, <2>5
<1> HIDE DEF Ok
<1>5. 0 \in Q /\ \A n \in 1..N : n - 1 \in Q => n \in Q
  BY <1>1, <1>3, <1>4
<1> HIDE DEF Q
<1>6. \A n \in 0..N : n \in Q
  BY <1>1, <1>5, Upto
<1>7. Ok(N)
  <2>1. N \in 0..N
    BY <1>1
  <2> QED
    BY <1>6, <2>1 DEF Q
<1>8. f[N] = ds
  <2>1. f[N] \in Seq(Deps(S)) /\ Len(f[N]) = Len(ds) /\ \A k \in 1..Len(ds) : f[N][k] = ds[k]
    BY <1>7 DEF Ok, N
  <2> DEFINE g == f[N]
  <2> HIDE DEF g
  <2>2. g \in Seq(Deps(S)) /\ Len(g) = Len(ds) /\ \A k \in 1..Len(ds) : g[k] = ds[k]
    BY <2>1 DEF g
  <2>3. g = ds
    BY <2>2
  <2> QED
    BY <2>3 DEF g
<1>9. Dedup(ds) = f[N]
  BY <1>1 DEF Dedup, Outs, f, N
<1> QED
  BY <1>8, <1>9

\* Dependencies with the same coordinates have the same keys.
LEMMA ClashByCoord ==
    ASSUME NEW ds, NoClash(ds), NEW out,
           \A k \in 1..Len(out) : \E i \in 1..Len(ds) : Coord(out[k]) = Coord(ds[i])
    PROVE  NoClash(out)
<1>1. \A a, b : Coord(a) = Coord(b) => Id(a) = Id(b)
  <2> SUFFICES ASSUME NEW a, NEW b, Coord(a) = Coord(b)
               PROVE  Id(a) = Id(b)
    OBVIOUS
  <2>1. a.name = b.name /\ a.ver = b.ver /\ a.res = b.res
    BY DEF Coord
  <2> QED
    BY <2>1, Zenon DEF Id
<1> SUFFICES ASSUME NEW i \in 1..Len(out), NEW k \in 1..Len(out)
             PROVE  /\ Id(out[i]) = Id(out[k]) => Coord(out[i]) = Coord(out[k])
                    /\ Id(out[i]) # Append(Id(out[k]), "in")
  BY DEF NoClash
<1>2. PICK g \in 1..Len(ds) : Coord(out[i]) = Coord(ds[g])
  OBVIOUS
<1>3. PICK h \in 1..Len(ds) : Coord(out[k]) = Coord(ds[h])
  OBVIOUS
<1>4. Id(out[i]) = Id(ds[g]) /\ Id(out[k]) = Id(ds[h])
  BY <1>1, <1>2, <1>3
<1>5. (Id(ds[g]) = Id(ds[h]) => Coord(ds[g]) = Coord(ds[h])) /\ Id(ds[g]) # Append(Id(ds[h]), "in")
  BY Zenon DEF NoClash
<1> QED
  BY <1>2, <1>3, <1>4, <1>5, Zenon

LEMMA DedupAgain ==
    ASSUME NEW S, NEW ds \in Seq(Deps(S)), NoClash(ds), NEW out, DedupedTo(ds, out, S)
    PROVE  Dedup(out) = out
<1> DEFINE N == Len(ds)
<1>1. N \in Nat /\ out \in Seq(Deps(S)) /\ Len(out) \in Nat
  BY DEF DedupedTo
<1>2. PICK at : Deduped(at, out, ds, N)
  BY DEF DedupedTo
<1>3. \A k \in 1..Len(out) : at[k] \in 1..N /\ Coord(out[k]) = Coord(ds[at[k]])
  <2>1. \A k \in 1..Len(out) : at[k] \in 1..N /\ SameDep(out[k], ds[at[k]])
    BY <1>2 DEF Deduped
  <2> QED
    BY <2>1, SameCoord
<1>4. ASSUME NEW i \in 1..Len(out), NEW k \in 1..Len(out), Coord(out[i]) = Coord(out[k]), i < k
      PROVE  FALSE
  <2>1. at[i] \in 1..N /\ at[k] \in 1..N /\ at[i] < at[k]
    BY <1>2, <1>3, <1>4 DEF Deduped
  <2>2. FirstOne(ds, at[k])
    BY <1>2, <2>1 DEF Deduped
  <2>3. at[i] \in 1..at[k] - 1
    BY <1>1, <2>1
  <2>4. Coord(ds[at[i]]) # Coord(ds[at[k]])
    BY <2>2, <2>3 DEF FirstOne
  <2> QED
    BY <1>3, <1>4, <2>4
<1>5. \A i, k \in 1..Len(out) : Coord(out[i]) = Coord(out[k]) => i = k
  <2> SUFFICES ASSUME NEW i \in 1..Len(out), NEW k \in 1..Len(out), Coord(out[i]) = Coord(out[k]), i # k
               PROVE  FALSE
    OBVIOUS
  <2>1. i < k \/ k < i
    BY <1>1
  <2> QED
    BY <1>4, <2>1
<1>6. NoClash(out)
  BY <1>3, ClashByCoord
<1> QED
  BY <1>1, <1>5, <1>6, DedupKeeps

LEMMA DedupsExact ==
    ASSUME NEW S, NEW ds \in Seq(Deps(S))
    PROVE  DedupExact(ds)
<1> DEFINE out == Dedup(ds)
           N == Len(ds)
           First(i) == \A h \in 1..i - 1 : Coord(ds[h]) # Coord(ds[i])
           Stands(at) ==
              /\ \A i, k \in 1..Len(out) : i < k => at[i] < at[k]
              /\ \A k \in 1..Len(out) : /\ out[k] = [ds[at[k]] EXCEPT !.indirect = out[k].indirect]
                                        /\ out[k].indirect => ds[at[k]].indirect
              /\ NoClash(ds) => \A i \in 1..N : First(i) <=> \E k \in 1..Len(out) : at[k] = i
           Direct == \A k \in 1..Len(out) :
              out[k].indirect <=> \A i \in 1..N : Coord(ds[i]) = Coord(out[k]) => ds[i].indirect
           Apart == \A i, k \in 1..Len(out) : Id(out[i]) = Id(out[k]) => i = k
<1>0. N \in Nat /\ \A n \in 1..N : ds[n] \in Deps(S)
  OBVIOUS
<1>1. out \in Seq(Deps(S)) /\ (\E at : Placed(at, out, ds, N)) /\ Apart
  BY DedupPlaces
<1>2. NoClash(ds) => DedupedTo(ds, out, S)
  BY DedupIs
<1> HIDE DEF out, N
<1>3. ASSUME NEW at, \A k \in 1..Len(out) : at[k] \in 1..N /\ SameDep(out[k], ds[at[k]])
      PROVE  \A k \in 1..Len(out) : out[k] = [ds[at[k]] EXCEPT !.indirect = out[k].indirect]
  <2> SUFFICES ASSUME NEW k \in 1..Len(out)
               PROVE  out[k] = [ds[at[k]] EXCEPT !.indirect = out[k].indirect]
    OBVIOUS
  <2>1. at[k] \in 1..N /\ SameDep(out[k], ds[at[k]])
    BY <1>3
  <2>2. out[k] \in Deps(S) /\ ds[at[k]] \in Deps(S)
    BY <1>0, <1>1, <2>1
  <2> QED
    BY <2>1, <2>2, SameDepIs
<1>4. CASE ~NoClash(ds)
  <2>1. PICK at : Placed(at, out, ds, N)
    BY <1>1
  <2>2. /\ at \in [1..Len(out) -> 1..N]
        /\ \A i, k \in 1..Len(out) : i < k => at[i] < at[k]
        /\ \A k \in 1..Len(out) : /\ at[k] \in 1..N /\ SameDep(out[k], ds[at[k]])
                                  /\ out[k].indirect => ds[at[k]].indirect
    BY <2>1 DEF Placed, Indirect
  <2>3. \A k \in 1..Len(out) : out[k] = [ds[at[k]] EXCEPT !.indirect = out[k].indirect]
    BY <1>3, <2>2
  <2>4. Stands(at)
    BY <1>4, <2>2, <2>3, Zenon
  <2> HIDE DEF Stands
  <2>5. \E b \in [1..Len(out) -> 1..N] : Stands(b)
    BY <2>2, <2>4
  <2> QED
    BY <1>1, <1>4, <2>5, Zenon DEF DedupExact, Stands, out, N
<1>5. CASE NoClash(ds)
  <2>1. DedupedTo(ds, out, S)
    BY <1>2, <1>5
  <2>2. PICK at : Deduped(at, out, ds, N)
    BY <2>1 DEF DedupedTo, N
  <2>3. /\ at \in [1..Len(out) -> 1..N]
        /\ \A i, k \in 1..Len(out) : i < k => at[i] < at[k]
        /\ \A k \in 1..Len(out) : at[k] \in 1..N /\ SameDep(out[k], ds[at[k]])
        /\ \A i \in 1..N : First(i) <=> \E k \in 1..Len(out) : at[k] = i
    BY <2>2 DEF Deduped, FirstOne
  <2>4. Direct
    BY <2>1 DEF DedupedTo, Directs, AllIndirect, Indirect, N
  <2>5. \A k \in 1..Len(out) : out[k] = [ds[at[k]] EXCEPT !.indirect = out[k].indirect]
    BY <1>3, <2>3
  <2>6. ASSUME NEW k \in 1..Len(out), out[k].indirect
        PROVE  ds[at[k]].indirect
    <3>1. at[k] \in 1..N /\ Coord(out[k]) = Coord(ds[at[k]])
      BY <2>3, SameCoord
    <3> QED
      BY <2>4, <2>6, <3>1
  <2>7. Stands(at)
    BY <2>3, <2>5, <2>6, Zenon
  <2>8. Dedup(out) = out
    BY <1>5, <2>1, DedupAgain
  <2> HIDE DEF Stands, Direct
  <2>9. \E b \in [1..Len(out) -> 1..N] : Stands(b)
    BY <2>3, <2>7
  <2> QED
    BY <1>1, <1>5, <2>4, <2>8, <2>9, Zenon DEF DedupExact, Stands, Direct, out, N
<1> QED
  BY <1>4, <1>5

LEMMA DepListIs ==
    ASSUME NEW S, NEW deps \in DepMaps(S)
    PROVE  /\ DOMAIN deduplicateDependencies(deps) = DOMAIN deps
           /\ deduplicateDependencies(deps) \in DepMaps(S)
           /\ \A u \in DOMAIN deps : /\ deps[u] \in Seq(Deps(S)) /\ u \in S
                                     /\ deduplicateDependencies(deps)[u] = Dedup(deps[u])
                                     /\ NoClash(deps[u]) => DedupedTo(deps[u], Dedup(deps[u]), S)
<1> DEFINE L == Seq(Deps(S))
<1> HIDE DEF L
<1>1. PICK U \in SUBSET S : deps \in [U -> L]
  BY DEF DepMaps, L
<1>2. \A u \in DOMAIN deps : deps[u] \in L
  BY <1>1
<1>3. \A u \in DOMAIN deps : NoClash(deps[u]) => DedupedTo(deps[u], Dedup(deps[u]), S)
  BY <1>2, DedupIs DEF L
<1>4. \A u \in U : Dedup(deps[u]) \in L
  BY <1>1, DedupPlaces DEF L
<1>5. deduplicateDependencies(deps) \in [U -> L]
  BY <1>1, <1>4 DEF deduplicateDependencies
<1>6. \A M : M \in [U -> L] => M \in DepMaps(S)
  BY DEF DepMaps, L
<1>7. \A u \in DOMAIN deps : deduplicateDependencies(deps)[u] = Dedup(deps[u])
  BY DEF deduplicateDependencies
<1> QED
  BY <1>1, <1>2, <1>3, <1>5, <1>6, <1>7 DEF L

\* The file of an incident begins with the directory of d, followed by end.
Offers(d, uri, end) == d.kept /\ d.prefix # NoPrefix /\ HasPrefix(uri, d.prefix \o end)
SomeOffers(m, uri, end) == \E u \in DOMAIN m : \E i \in 1..Len(m[u]) : Offers(m[u][i], uri, end)

LEMMA OffersSame ==
    ASSUME NEW a, NEW b, NEW uri, NEW end, a.kept = b.kept, a.prefix = b.prefix
    PROVE  Offers(a, uri, end) <=> Offers(b, uri, end)
  BY Zenon DEF Offers

LEMMA ShorterPrefix ==
    ASSUME NEW T, NEW uri \in Seq(T), NEW dir \in Seq(T), NEW end \in Seq(T), HasPrefix(uri, dir \o end)
    PROVE  HasPrefix(uri, dir)
<1> DEFINE p == dir \o end
<1>1. /\ Len(dir) \in Nat /\ Len(end) \in Nat /\ Len(uri) \in Nat /\ Len(p) = Len(dir) + Len(end)
      /\ \A i \in 1..Len(dir) : p[i] = dir[i]
  OBVIOUS
<1>2. Len(p) =< Len(uri) /\ \A i \in 1..Len(p) : uri[i] = p[i]
  BY DEF HasPrefix
<1> HIDE DEF p
<1>3. Len(dir) =< Len(uri) /\ \A i \in 1..Len(dir) : i \in 1..Len(p)
  BY <1>1, <1>2
<1> QED
  BY <1>1, <1>2, <1>3 DEF HasPrefix

LEMMA SelectorsExact ==
    ASSUME NEW S, NEW deps \in DepMaps(S), NEW incs, incs \in SUBSET [uri : Seq(S), dep : BOOLEAN]
    PROVE  SelectorExact(incs, deps)
<1> DEFINE dd == deduplicateDependencies(deps)
           kept == ProviderEvaluate([matched |-> TRUE, incidents |-> incs], TRUE, deps).incidents
           alike == \A u \in DOMAIN deps :
                    /\ NoClash(deps[u])
                    /\ \A i, k \in 1..Len(deps[u]) : Coord(deps[u][i]) = Coord(deps[u][k]) =>
                          deps[u][i].kept = deps[u][k].kept /\ deps[u][i].prefix = deps[u][k].prefix
<1>1. /\ DOMAIN dd = DOMAIN deps
      /\ \A u \in DOMAIN deps : /\ deps[u] \in Seq(Deps(S)) /\ dd[u] = Dedup(deps[u])
                                /\ NoClash(deps[u]) => DedupedTo(deps[u], Dedup(deps[u]), S)
  BY DepListIs
<1> HIDE DEF dd
<1>2. kept = {inc \in incs : matchDepLabelSelector(TRUE, inc, dd)}
  <2>1. CASE incs = {}
    BY <2>1 DEF ProviderEvaluate
  <2>2. CASE incs # {}
    BY <2>2 DEF ProviderEvaluate, dd
  <2> QED
    BY <2>1, <2>2
<1>3. ASSUME alike, NEW u \in DOMAIN deps, NEW uri, NEW end
      PROVE  (\E k \in 1..Len(dd[u]) : Offers(dd[u][k], uri, end))
             <=> \E i \in 1..Len(deps[u]) : Offers(deps[u][i], uri, end)
  <2> DEFINE ds == deps[u]
             out == dd[u]
             N == Len(ds)
  <2>1. ds \in Seq(Deps(S)) /\ DedupedTo(ds, out, S)
    BY <1>1, <1>3
  <2>2. N \in Nat
    BY <2>1
  <2>3. \A i, k \in 1..N : Coord(ds[i]) = Coord(ds[k]) => ds[i].kept = ds[k].kept /\ ds[i].prefix = ds[k].prefix
    BY <1>3
  <2> HIDE DEF ds, out
  <2>4. PICK at : Deduped(at, out, ds, N)
    BY <2>1 DEF DedupedTo
  <2>5. \A k \in 1..Len(out) : at[k] \in 1..N /\ SameDep(out[k], ds[at[k]])
    BY <2>4 DEF Deduped
  <2>6. \A k \in 1..Len(out) : Offers(out[k], uri, end) <=> Offers(ds[at[k]], uri, end)
    BY <2>5, OffersSame DEF SameDep
  <2>7. ASSUME NEW i \in 1..N, Offers(ds[i], uri, end)
        PROVE  \E k \in 1..Len(out) : Offers(out[k], uri, end)
    <3>1. PICK k \in 1..Len(out) : at[k] \in 1..i /\ Coord(out[k]) = Coord(ds[i])
      BY <2>2, <2>4, FirstFound
    <3>2. Coord(ds[at[k]]) = Coord(ds[i])
      BY <2>5, <3>1, SameCoord
    <3>3. Offers(ds[at[k]], uri, end)
      <4>1. ds[at[k]].kept = ds[i].kept /\ ds[at[k]].prefix = ds[i].prefix
        BY <2>3, <2>5, <3>2
      <4> QED
        BY <2>7, <4>1, OffersSame
    <3> QED
      BY <2>6, <3>3
  <2>8. (\E k \in 1..Len(out) : Offers(out[k], uri, end)) <=> \E i \in 1..N : Offers(ds[i], uri, end)
    BY <2>5, <2>6, <2>7
  <2> QED
    BY <2>8 DEF ds, out, N
<1>4. alike => \A uri, end : SomeOffers(dd, uri, end) <=> SomeOffers(deps, uri, end)
  BY <1>1, <1>3 DEF SomeOffers
<1> HIDE DEF alike
<1>5. ASSUME NEW uri \in Seq(S \cup {"/"})
      PROVE  /\ SomeOffers(deps, uri, <<"/">>) => SomeOffers(deps, uri, <<>>)
             /\ SomeOffers(dd, uri, <<>>) <=> \E u \in DOMAIN dd : \E i \in 1..Len(dd[u]) :
                   LET d == dd[u][i] IN d.kept /\ d.prefix # NoPrefix /\ HasPrefix(uri, d.prefix)
  <2> DEFINE T == S \cup {"/"}
  <2>1. <<"/">> \in Seq(T) /\ \A dir \in Seq(S) : dir \in Seq(T) /\ dir \o <<>> = dir
    OBVIOUS
  <2>2. \A d \in Deps(S) : d.prefix \in Seq(S)
    BY DEF Deps
  <2> HIDE DEF T
  <2>3. ASSUME NEW d \in Deps(S)
        PROVE  /\ Offers(d, uri, <<"/">>) => Offers(d, uri, <<>>)
               /\ Offers(d, uri, <<>>) <=> d.kept /\ d.prefix # NoPrefix /\ HasPrefix(uri, d.prefix)
    <3>1. d.prefix \in Seq(T) /\ d.prefix \o <<>> = d.prefix /\ uri \in Seq(T)
      BY <2>1, <2>2 DEF T
    <3>2. HasPrefix(uri, d.prefix \o <<"/">>) => HasPrefix(uri, d.prefix)
      BY <2>1, <3>1, ShorterPrefix
    <3> QED
      BY <3>1, <3>2, Zenon DEF Offers
  <2>4. \A u \in DOMAIN deps : \A i \in 1..Len(deps[u]) : deps[u][i] \in Deps(S)
    BY <1>1
  <2>5. \A u \in DOMAIN dd : \A i \in 1..Len(dd[u]) : dd[u][i] \in Deps(S)
    <3>1. \A u \in DOMAIN dd : dd[u] \in Seq(Deps(S))
      BY <1>1, DedupPlaces
    <3> QED
      BY <3>1
  <2>6. SomeOffers(deps, uri, <<"/">>) => SomeOffers(deps, uri, <<>>)
    BY <2>3, <2>4, Zenon DEF SomeOffers
  <2>7. SomeOffers(dd, uri, <<>>) <=> \E u \in DOMAIN dd : \E i \in 1..Len(dd[u]) :
          LET d == dd[u][i] IN d.kept /\ d.prefix # NoPrefix /\ HasPrefix(uri, d.prefix)
    BY <2>3, <2>5, Zenon DEF SomeOffers
  <2> QED
    BY <2>6, <2>7
<1>6. ASSUME DOMAIN deps # {}, alike, \A i \in incs : i.uri # <<>>, NEW inc \in incs
      PROVE  /\ ~inc.dep \/ SomeOffers(deps, inc.uri, <<"/">>) => inc \in kept
             /\ inc \in kept => ~inc.dep \/ SomeOffers(deps, inc.uri, <<>>)
  <2>1. inc.uri \in Seq(S \cup {"/"}) /\ inc.uri # <<>>
    <3>1. inc.uri \in Seq(S)
      OBVIOUS
    <3> QED
      BY <1>6, <3>1
  <2>2. inc \in kept <=> matchDepLabelSelector(TRUE, inc, dd)
    BY <1>2
  <2>3. matchDepLabelSelector(TRUE, inc, dd) <=> ~inc.dep \/ SomeOffers(dd, inc.uri, <<>>)
    BY <1>1, <1>5, <1>6, <2>1, Zenon DEF matchDepLabelSelector
  <2>4. SomeOffers(dd, inc.uri, <<>>) <=> SomeOffers(deps, inc.uri, <<>>)
    BY <1>4, <1>6
  <2> HIDE DEF kept
  <2> QED
    BY <1>5, <2>1, <2>2, <2>3, <2>4, Zenon
<1> HIDE DEF kept
<1> QED
  BY <1>6, Zenon DEF SelectorExact, alike, kept, SomeOffers, Offers

\* A dependency that a condition finds, as far as its answer tells.
NamesFound(c, ds) == {<<ds[i].name, ds[i].ver>> : i \in NameMatches(c, ds)}

LEMMA NamesKept ==
    ASSUME NEW S, NEW ds \in Seq(Deps(S)), NEW out, DedupedTo(ds, out, S), NEW c
    PROVE  NamesFound(c, out) = NamesFound(c, ds)
<1> DEFINE N == Len(ds)
           L == Len(out)
<1>1. N \in Nat /\ L \in Nat
  BY DEF DedupedTo
<1>2. PICK at : Deduped(at, out, ds, N)
  BY DEF DedupedTo
<1>3. \A k \in 1..L : at[k] \in 1..N /\ SameDep(out[k], ds[at[k]])
  BY <1>2 DEF Deduped
<1>4. \A k \in 1..L : out[k].name = ds[at[k]].name /\ out[k].ver = ds[at[k]].ver
  BY <1>3 DEF SameDep
<1>5. \A i, k \in 1..L : i < k => at[i] < at[k]
  BY <1>2 DEF Deduped
<1>6. ASSUME NEW i \in 1..N
      PROVE  \E k \in 1..L : at[k] \in 1..i /\ out[k].name = ds[i].name /\ out[k].ver = ds[i].ver
  <2>1. PICK k \in 1..L : at[k] \in 1..i /\ Coord(out[k]) = Coord(ds[i])
    BY <1>1, <1>2, FirstFound
  <2> QED
    BY <2>1 DEF Coord
<1> HIDE DEF N, L
<1>7. ASSUME NEW i \in NameMatches(c, ds)
      PROVE  \E k \in NameMatches(c, out) : out[k].name = ds[i].name /\ out[k].ver = ds[i].ver
  <2>1. i \in 1..N /\ (ds[i].name = c.name \/ ds[i].name \in c.regex) /\ \A h \in 1..i - 1 : ds[h].name # c.name
    BY DEF NameMatches, N
  <2>2. PICK k \in 1..L : at[k] \in 1..i /\ out[k].name = ds[i].name /\ out[k].ver = ds[i].ver
    BY <1>6, <2>1
  <2>3. ASSUME NEW h \in 1..k - 1
        PROVE  out[h].name # c.name
    <3>1. h \in 1..L /\ h < k
      BY <1>1
    <3>2. at[h] < at[k] /\ at[h] \in 1..N
      BY <1>3, <1>5, <3>1
    <3>3. at[h] \in 1..i - 1
      BY <1>1, <2>1, <2>2, <3>2
    <3> QED
      BY <1>4, <2>1, <3>1, <3>3
  <2>4. k \in NameMatches(c, out)
    BY <2>1, <2>2, <2>3 DEF NameMatches, L
  <2> QED
    BY <2>2, <2>4
<1>8. ASSUME NEW k \in NameMatches(c, out)
      PROVE  \E i \in NameMatches(c, ds) : out[k].name = ds[i].name /\ out[k].ver = ds[i].ver
  <2>1. k \in 1..L /\ (out[k].name = c.name \/ out[k].name \in c.regex) /\ \A h \in 1..k - 1 : out[h].name # c.name
    BY DEF NameMatches, L
  <2>2. at[k] \in 1..N /\ out[k].name = ds[at[k]].name /\ out[k].ver = ds[at[k]].ver
    BY <1>3, <1>4, <2>1
  <2>3. ASSUME NEW h \in 1..at[k] - 1, ds[h].name = c.name
        PROVE  FALSE
    <3>1. h \in 1..N
      BY <1>1, <2>2
    <3>2. PICK g \in 1..L : at[g] \in 1..h /\ out[g].name = ds[h].name
      BY <1>6, <3>1
    <3>3. at[g] < at[k]
      BY <2>2, <3>1, <3>2, <1>1
    <3>4. ~(k < g) /\ k # g
      <4>1. k < g => at[k] < at[g]
        BY <1>5, <2>1
      <4>2. at[g] \in Int /\ at[k] \in Int
        BY <2>2, <3>2
      <4> QED
        BY <3>3, <4>1, <4>2
    <3>5. g \in 1..k - 1
      BY <1>1, <2>1, <3>4
    <3> QED
      BY <2>1, <2>3, <3>2, <3>5
  <2>4. at[k] \in NameMatches(c, ds)
    BY <2>1, <2>2, <2>3 DEF NameMatches, N
  <2> QED
    BY <2>2, <2>4
<1> QED
  BY <1>7, <1>8 DEF NamesFound

FoundDeps(c, deps) == UNION {{<<u, p[1], p[2]>> : p \in NamesFound(c, deps[u])} : u \in DOMAIN deps}
AskedDeps(c, K) == {k \in K : ~(k[3] = NoVersion \/ (c.lower = NoVersion /\ c.upper = NoVersion))}
Unreadable(c, K) ==
    AskedDeps(c, K) # {} /\ (\/ \E k \in AskedDeps(c, K) : ~getVersion(k[3]).ok
                             \/ \E b \in {c.lower, c.upper} \ {NoVersion} : ~getVersion(b).ok)
InsideDeps(c, K) ==
    {k \in AskedDeps(c, K) : InBounds(c, getVersion(k[3]))} \cup (K \ AskedDeps(c, K))

\* What DependencyCondition.Evaluate answers, from what it finds.
Answered(c, K, r) ==
    /\ r.err = Unreadable(c, K)
    /\ r.matched = (~Unreadable(c, K) /\ InsideDeps(c, K) # {})
    /\ {<<i.uri, i.name>> : i \in r.incidents}
          = IF Unreadable(c, K) THEN {} ELSE {<<k[1], k[2]>> : k \in InsideDeps(c, K)}

LEMMA EvaluateIs ==
    ASSUME NEW c, NEW deps
    PROVE  Answered(c, FoundDeps(c, deps), DependencyEvaluate(c, deps))
<1> DEFINE found == UNION {{<<u, deps[u][i]>> : i \in NameMatches(c, deps[u])} : u \in DOMAIN deps}
           asked == {p \in found : ~Unbounded(c, p[2])}
           bad == asked # {} /\ (\/ \E p \in asked : ~getVersion(p[2].ver).ok
                                 \/ \E b \in {c.lower, c.upper} \ {NoVersion} : ~getVersion(b).ok)
           in == {p \in asked : InBounds(c, getVersion(p[2].ver))} \cup (found \ asked)
           Incident(p) == [uri |-> p[1], name |-> p[2].name, ver |-> p[2].ver,
                           at |-> IF p \in asked /\ p[2].base # NoBase THEN p[2].base ELSE p[2].name]
           Key(p) == <<p[1], p[2].name, p[2].ver>>
           K == FoundDeps(c, deps)
           r == DependencyEvaluate(c, deps)
<1>1. r = IF bad THEN [err |-> TRUE, matched |-> FALSE, incidents |-> {}]
          ELSE [err |-> FALSE, matched |-> in # {}, incidents |-> {Incident(p) : p \in in}]
  BY DEF DependencyEvaluate
<1>2. K = {Key(p) : p \in found}
  <2>1. ASSUME NEW p \in found
        PROVE  Key(p) \in K
    <3>1. PICK u \in DOMAIN deps : \E i \in NameMatches(c, deps[u]) : p = <<u, deps[u][i]>>
      OBVIOUS
    <3>0. PICK i \in NameMatches(c, deps[u]) : p = <<u, deps[u][i]>>
      BY <3>1
    <3>2. <<deps[u][i].name, deps[u][i].ver>> \in NamesFound(c, deps[u])
      BY DEF NamesFound
    <3>3. Key(p) = <<u, deps[u][i].name, deps[u][i].ver>>
      BY <3>0
    <3> QED
      BY <3>2, <3>3 DEF FoundDeps
  <2>2. ASSUME NEW k \in K
        PROVE  \E p \in found : k = Key(p)
    <3>0. PICK u \in DOMAIN deps : \E q \in NamesFound(c, deps[u]) : k = <<u, q[1], q[2]>>
      BY DEF FoundDeps
    <3>1. PICK q \in NamesFound(c, deps[u]) : k = <<u, q[1], q[2]>>
      BY <3>0
    <3>2. PICK i \in NameMatches(c, deps[u]) : q = <<deps[u][i].name, deps[u][i].ver>>
      BY DEF NamesFound
    <3>3. <<u, deps[u][i]>> \in found
      OBVIOUS
    <3>4. k = Key(<<u, deps[u][i]>>)
      BY <3>1, <3>2
    <3> QED
      BY <3>3, <3>4
  <2> QED
    BY <2>1, <2>2
<1> HIDE DEF found, K, r
<1>3. \A p : Key(p)[1] = p[1] /\ Key(p)[2] = p[2].name /\ Key(p)[3] = p[2].ver
  OBVIOUS
<1> HIDE DEF Key
<1>4. AskedDeps(c, K) = {Key(p) : p \in asked}
  BY <1>2, <1>3 DEF AskedDeps, Unbounded
<1>5. \A p \in found : Key(p) \in AskedDeps(c, K) <=> p \in asked
  BY <1>2, <1>3 DEF AskedDeps, Unbounded
<1> HIDE DEF asked
<1>6. bad <=> Unreadable(c, K)
  BY <1>3, <1>4 DEF Unreadable
<1>7. InsideDeps(c, K) = {Key(p) : p \in in}
  <2>1. asked \subseteq found
    BY DEF asked
  <2> QED
    BY <1>2, <1>3, <1>4, <1>5, <2>1 DEF InsideDeps
<1> HIDE DEF in, bad
<1>8. {<<k[1], k[2]>> : k \in InsideDeps(c, K)} = {<<p[1], p[2].name>> : p \in in}
  <2>1. \A k \in InsideDeps(c, K) : \E p \in in : k[1] = p[1] /\ k[2] = p[2].name
    BY <1>3, <1>7
  <2>2. \A p \in in : \E k \in InsideDeps(c, K) : k[1] = p[1] /\ k[2] = p[2].name
    BY <1>3, <1>7
  <2> QED
    BY <2>1, <2>2
<1>9. \A p : Incident(p).uri = p[1] /\ Incident(p).name = p[2].name
  OBVIOUS
<1> HIDE DEF Incident
<1>10. CASE bad
  <2>1. r = [err |-> TRUE, matched |-> FALSE, incidents |-> {}]
    BY <1>1, <1>10
  <2>2. r.err = TRUE /\ r.matched = FALSE /\ r.incidents = {}
    BY <2>1
  <2>3. {<<i.uri, i.name>> : i \in r.incidents} = {}
    BY <2>2
  <2> QED
    BY <1>6, <1>10, <2>2, <2>3 DEF Answered, K, r, Unreadable
<1>11. CASE ~bad
  <2>1. r = [err |-> FALSE, matched |-> in # {}, incidents |-> {Incident(p) : p \in in}]
    BY <1>1, <1>11
  <2>2. r.err = FALSE /\ r.matched = (in # {}) /\ r.incidents = {Incident(p) : p \in in}
    BY <2>1
  <2>3. {<<i.uri, i.name>> : i \in r.incidents} = {<<p[1], p[2].name>> : p \in in}
    <3>1. \A i \in r.incidents : \E p \in in : i.uri = p[1] /\ i.name = p[2].name
      BY <1>9, <2>2
    <3>2. \A p \in in : \E i \in r.incidents : i.uri = p[1] /\ i.name = p[2].name
      BY <1>9, <2>2
    <3> QED
      BY <3>1, <3>2
  <2>4. in # {} <=> InsideDeps(c, K) # {}
    BY <1>7
  <2> QED
    BY <1>6, <1>8, <1>11, <2>2, <2>3, <2>4 DEF Answered, K, r, Unreadable
<1> QED
  BY <1>10, <1>11

LEMMA VersionIs ==
    ASSUME NEW S, NEW v \in DepVersions(S)
    PROVE  /\ v.n \in Nat /\ v.p \in Nat
           /\ getVersion(v).ok => getVersion(v).n = v.n /\ getVersion(v).p = v.p
<1>1. CASE v.k = "plain" /\ v.n \in Nat /\ v.p \in Nat
  BY <1>1 DEF getVersion, Reading
<1>2. CASE v.k = "suffix" /\ v.n \in Nat /\ v.p = 0
  BY <1>2 DEF getVersion, Reading
<1>3. CASE v.k \notin {"plain", "suffix"} /\ v.n = 0 /\ v.p = 0
  BY <1>3 DEF getVersion, NoReading
<1> QED
  BY <1>1, <1>2, <1>3 DEF DepVersions, NoVersion

InVersions(c, ver) ==
    ver # NoVersion => /\ c.lower = NoVersion \/ ~Before(ver, c.lower)
                       /\ c.upper = NoVersion \/ ~Before(c.upper, ver)

LEMMA BeforeSame ==
    ASSUME NEW a, NEW b, NEW x, NEW y, x.n = a.n, x.p = a.p, y.n = b.n, y.p = b.p
    PROVE  Before(x, y) <=> Before(a, b)
  BY DEF Before

LEMMA InsideIs ==
    ASSUME NEW S, NEW c \in DepConditions(S), NEW K, NEW k \in K, k[3] \in DepVersions(S),
           ~Unreadable(c, K)
    PROVE  /\ k \in InsideDeps(c, K) => InVersions(c, k[3])
           /\ InVersions(c, k[3]) /\ k[3].p = 0 => k \in InsideDeps(c, K)
<1>1. c.lower \in DepVersions(S) /\ c.upper \in DepVersions(S)
  BY DEF DepConditions
<1>2. CASE k \notin AskedDeps(c, K)
  <2>1. k[3] = NoVersion \/ (c.lower = NoVersion /\ c.upper = NoVersion)
    BY <1>2 DEF AskedDeps
  <2> QED
    BY <1>2, <2>1 DEF InsideDeps, InVersions
<1>3. CASE k \in AskedDeps(c, K)
  <2> DEFINE v == getVersion(k[3])
             l == getVersion(c.lower)
             u == getVersion(c.upper)
  <2>1. k[3] # NoVersion /\ v.ok
    BY <1>3 DEF AskedDeps, Unreadable
  <2>2. c.lower # NoVersion => l.ok
    BY <1>3 DEF Unreadable
  <2>3. c.upper # NoVersion => u.ok
    BY <1>3 DEF Unreadable
  <2>4. v.n = k[3].n /\ v.p = k[3].p
    BY <2>1, VersionIs
  <2>5. c.lower # NoVersion => l.n = c.lower.n /\ l.p = c.lower.p
    BY <1>1, <2>2, VersionIs
  <2>6. c.upper # NoVersion => u.n = c.upper.n /\ u.p = c.upper.p
    BY <1>1, <2>3, VersionIs
  <2>7. k \in InsideDeps(c, K) <=>
           /\ c.lower # NoVersion => prereleaseCheck(v, l) /\ ~Before(v, l)
           /\ c.upper # NoVersion => prereleaseCheck(v, u) /\ ~Before(u, v)
    BY <1>3 DEF InsideDeps, InBounds
  <2> HIDE DEF v, l, u
  <2>8. c.lower # NoVersion => (Before(v, l) <=> Before(k[3], c.lower))
    BY <2>4, <2>5, BeforeSame
  <2>9. c.upper # NoVersion => (Before(u, v) <=> Before(c.upper, k[3]))
    BY <2>4, <2>6, BeforeSame
  <2>10. k[3].p = 0 => prereleaseCheck(v, l) /\ prereleaseCheck(v, u)
    BY <2>4 DEF prereleaseCheck
  <2> QED
    BY <2>1, <2>7, <2>8, <2>9, <2>10 DEF InVersions
<1> QED
  BY <1>2, <1>3

LEMMA ConditionsExact ==
    ASSUME NEW S, NEW c \in DepConditions(S), NEW deps \in DepMaps(S)
    PROVE  ConditionExact(c, deps)
<1> DEFINE dd == deduplicateDependencies(deps)
           r == DependencyEvaluate(c, deps)
           again == DependencyEvaluate(c, dd)
           K == FoundDeps(c, deps)
           Once(ds) == \A i, k \in 1..Len(ds) : ds[i].name = ds[k].name => i = k
           Asks(d) == (d.name = c.name \/ d.name \in c.regex) /\ InVersions(c, d.ver)
           Seen(a) == {<<i.uri, i.name>> : i \in a.incidents}
<1>1. /\ DOMAIN dd = DOMAIN deps
      /\ \A u \in DOMAIN deps : /\ deps[u] \in Seq(Deps(S)) /\ dd[u] = Dedup(deps[u])
                                /\ NoClash(deps[u]) => DedupedTo(deps[u], Dedup(deps[u]), S)
  BY DepListIs
<1>2. \A u \in DOMAIN deps : \A i \in 1..Len(deps[u]) : deps[u][i] \in Deps(S)
  BY <1>1
<1> HIDE DEF dd
<1>3. ASSUME \A u \in DOMAIN deps : NoClash(deps[u])
      PROVE  FoundDeps(c, dd) = K
  <2>1. \A u \in DOMAIN deps : NamesFound(c, dd[u]) = NamesFound(c, deps[u])
    BY <1>1, <1>3, NamesKept
  <2>2. ASSUME NEW k
        PROVE  k \in FoundDeps(c, dd) <=> k \in K
    <3>1. k \in FoundDeps(c, dd) <=>
             \E u \in DOMAIN deps : \E p \in NamesFound(c, dd[u]) : k = <<u, p[1], p[2]>>
      BY <1>1 DEF FoundDeps
    <3>2. k \in K <=> \E u \in DOMAIN deps : \E p \in NamesFound(c, deps[u]) : k = <<u, p[1], p[2]>>
      BY DEF FoundDeps
    <3> QED
      BY <2>1, <3>1, <3>2
  <2> QED
    BY <2>2
<1>4. Answered(c, K, r)
  BY EvaluateIs
<1>5. Answered(c, FoundDeps(c, dd), again)
  BY EvaluateIs
<1> HIDE DEF r, again, K
<1>6. (\A u \in DOMAIN deps : NoClash(deps[u])) =>
         r.err = again.err /\ r.matched = again.matched /\ Seen(r) = Seen(again)
  BY <1>3, <1>4, <1>5 DEF Answered
<1>7. ASSUME ~r.err
      PROVE  ~Unreadable(c, K) /\ Seen(r) = {<<k[1], k[2]>> : k \in InsideDeps(c, K)}
  BY <1>4, <1>7 DEF Answered
<1>8. ASSUME ~r.err, NEW u \in DOMAIN deps, NEW i \in NameMatches(c, deps[u])
      PROVE  LET k == <<u, deps[u][i].name, deps[u][i].ver>>
             IN  /\ k \in InsideDeps(c, K) => InVersions(c, deps[u][i].ver)
                 /\ InVersions(c, deps[u][i].ver) /\ deps[u][i].ver.p = 0 => k \in InsideDeps(c, K)
  <2> DEFINE k == <<u, deps[u][i].name, deps[u][i].ver>>
  <2>1. i \in 1..Len(deps[u])
    BY DEF NameMatches
  <2>2. k[3] = deps[u][i].ver /\ deps[u][i].ver \in DepVersions(S)
    BY <1>2, <2>1 DEF Deps
  <2>3. <<deps[u][i].name, deps[u][i].ver>> \in NamesFound(c, deps[u])
    BY DEF NamesFound
  <2>4. k \in K
    BY <2>3 DEF K, FoundDeps
  <2> HIDE DEF k
  <2>5. /\ k \in InsideDeps(c, K) => InVersions(c, k[3])
        /\ InVersions(c, k[3]) /\ k[3].p = 0 => k \in InsideDeps(c, K)
    BY <1>7, <1>8, <2>2, <2>4, InsideIs
  <2> QED
    BY <2>2, <2>5 DEF k
<1>9. ASSUME ~r.err, NEW x \in Seen(r)
      PROVE  \E u \in DOMAIN deps : \E i \in 1..Len(deps[u]) : x = <<u, deps[u][i].name>> /\ Asks(deps[u][i])
  <2>1. PICK k \in InsideDeps(c, K) : x = <<k[1], k[2]>>
    BY <1>7, <1>9
  <2>2. k \in K
    BY DEF InsideDeps, AskedDeps
  <2>3. PICK u \in DOMAIN deps : \E p \in NamesFound(c, deps[u]) : k = <<u, p[1], p[2]>>
    BY <2>2 DEF K, FoundDeps
  <2>4. PICK i \in NameMatches(c, deps[u]) : k = <<u, deps[u][i].name, deps[u][i].ver>>
    BY <2>3 DEF NamesFound
  <2>5. i \in 1..Len(deps[u]) /\ (deps[u][i].name = c.name \/ deps[u][i].name \in c.regex)
    BY DEF NameMatches
  <2>6. InVersions(c, deps[u][i].ver)
    BY <1>8, <1>9, <2>1, <2>4
  <2> QED
    BY <2>1, <2>4, <2>5, <2>6
<1>10. ASSUME ~r.err, c.name = <<>> \/ c.regex = {}, \A u \in DOMAIN deps : Once(deps[u]),
              NEW u \in DOMAIN deps, NEW i \in 1..Len(deps[u]), Asks(deps[u][i]), deps[u][i].ver.p = 0
       PROVE  <<u, deps[u][i].name>> \in Seen(r)
  <2>1. i \in NameMatches(c, deps[u])
    <3> SUFFICES ASSUME NEW h \in 1..i - 1, deps[u][h].name = c.name
                 PROVE  FALSE
      BY <1>10 DEF NameMatches
    <3>1. h \in 1..Len(deps[u]) /\ h # i
      BY <1>1
    <3>2. deps[u][h].name # <<>>
      BY <1>2, <3>1 DEF Deps, Texts
    <3>3. c.regex = {}
      BY <1>10, <3>2
    <3>4. deps[u][i].name = deps[u][h].name
      BY <1>10, <3>3
    <3> QED
      BY <1>10, <3>1, <3>4
  <2> DEFINE k == <<u, deps[u][i].name, deps[u][i].ver>>
  <2>2. k \in InsideDeps(c, K)
    BY <1>8, <1>10, <2>1
  <2>3. k[1] = u /\ k[2] = deps[u][i].name
    OBVIOUS
  <2>4. Seen(r) = {<<q[1], q[2]>> : q \in InsideDeps(c, K)}
    BY <1>7, <1>10
  <2> HIDE DEF k, Seen
  <2>5. <<k[1], k[2]>> \in {<<q[1], q[2]>> : q \in InsideDeps(c, K)}
    BY <2>2
  <2> QED
    BY <2>3, <2>4, <2>5
<1> HIDE DEF Seen
<1> QED
  BY <1>6, <1>9, <1>10, Zenon DEF ConditionExact, r, again, dd, Asks, InVersions, Seen

Maps(S, T) == UNION {[U -> T] : U \in SUBSET S}

Overridden(f, g, o) ==
    /\ DOMAIN o = DOMAIN f \cup DOMAIN g
    /\ \A u \in DOMAIN g : o[u] = g[u]
    /\ \A u \in DOMAIN f \ DOMAIN g : o[u] = f[u]

LEMMA OverrideIs ==
    ASSUME NEW S, NEW T, NEW f \in Maps(S, T), NEW g \in Maps(S, T)
    PROVE  Override(f, g) \in Maps(S, T) /\ Overridden(f, g, Override(f, g))
<1>1. PICK U \in SUBSET S : f \in [U -> T]
  BY DEF Maps
<1>2. PICK V \in SUBSET S : g \in [V -> T]
  BY DEF Maps
<1>3. Override(f, g) \in [U \cup V -> T]
  BY <1>1, <1>2 DEF Override
<1>4. U \cup V \in SUBSET S
  OBVIOUS
<1>5. Overridden(f, g, Override(f, g))
  BY DEF Overridden, Override
<1>6. Override(f, g) \in Maps(S, T)
  BY <1>3, <1>4 DEF Maps
<1> QED
  BY <1>5, <1>6

LEMMA EmptyMap ==
    ASSUME NEW S, NEW T
    PROVE  <<>> \in Maps(S, T) /\ DOMAIN <<>> = {}
<1>1. DOMAIN <<>> = {}
  OBVIOUS
<1>2. <<>> \in [{} -> T]
  OBVIOUS
<1> QED
  BY <1>1, <1>2 DEF Maps

Failed(x) == x.err
Gathered(S) == [err : BOOLEAN, deps : DepMaps(S)]
Nothing == [err |-> FALSE, deps |-> <<>>]

DagTurn(acc, r) ==
    IF acc.err \/ r.err THEN NoDeps ELSE [err |-> FALSE, deps |-> Override(acc.deps, r.deps)]

DepsTurn(acc, r) ==
    IF acc.err \/ r.err THEN NoDeps
    ELSE [err |-> FALSE, deps |-> deduplicateDependencies(Override(acc.deps, r.deps))]

LEMMA GatherIs ==
    ASSUME NEW S, NEW acc \in Gathered(S), NEW r \in Answers(S)
    PROVE  /\ acc.deps \in DepMaps(S) /\ r.deps \in DepMaps(S)
           /\ Override(acc.deps, r.deps) \in DepMaps(S)
           /\ DagTurn(acc, r) \in Gathered(S) /\ DepsTurn(acc, r) \in Gathered(S)
           /\ Failed(DagTurn(acc, r)) <=> Failed(acc) \/ Failed(r)
           /\ Failed(DepsTurn(acc, r)) <=> Failed(acc) \/ Failed(r)
           /\ ~(Failed(acc) \/ Failed(r)) =>
                 /\ DagTurn(acc, r).deps = Override(acc.deps, r.deps)
                 /\ DepsTurn(acc, r).deps = deduplicateDependencies(Override(acc.deps, r.deps))
<1> DEFINE o == Override(acc.deps, r.deps)
           dd == deduplicateDependencies(o)
<1>1. acc.deps \in DepMaps(S) /\ r.deps \in DepMaps(S)
  BY DEF Gathered, Answers
<1>2. DepMaps(S) = Maps(S, Seq(Deps(S)))
  BY DEF DepMaps, Maps
<1>3. o \in DepMaps(S)
  <2> DEFINE T == Seq(Deps(S))
  <2> HIDE DEF T
  <2>1. acc.deps \in Maps(S, T) /\ r.deps \in Maps(S, T)
    BY <1>1, <1>2 DEF T
  <2>2. Override(acc.deps, r.deps) \in Maps(S, T)
    BY <2>1, OverrideIs
  <2> QED
    BY <1>2, <2>2 DEF T
<1> HIDE DEF o
<1>4. dd \in DepMaps(S)
  BY <1>3, DepListIs
<1>5. <<>> \in DepMaps(S)
  BY <1>2, EmptyMap
<1> HIDE DEF dd
<1>6. CASE Failed(acc) \/ Failed(r)
  <2>1. DagTurn(acc, r) = NoDeps /\ DepsTurn(acc, r) = NoDeps
    BY <1>6 DEF DagTurn, DepsTurn, Failed
  <2>2. NoDeps \in Gathered(S) /\ Failed(NoDeps)
    BY <1>5 DEF NoDeps, Gathered, Failed
  <2> QED
    BY <1>1, <1>3, <1>6, <2>1, <2>2 DEF o
<1>7. CASE ~(Failed(acc) \/ Failed(r))
  <2>1. /\ DagTurn(acc, r) = [err |-> FALSE, deps |-> o]
        /\ DepsTurn(acc, r) = [err |-> FALSE, deps |-> dd]
    BY <1>7 DEF DagTurn, DepsTurn, Failed, o, dd
  <2>2. [err |-> FALSE, deps |-> o] \in Gathered(S) /\ [err |-> FALSE, deps |-> dd] \in Gathered(S)
    BY <1>3, <1>4 DEF Gathered
  <2>3. ~Failed(DagTurn(acc, r)) /\ ~Failed(DepsTurn(acc, r))
    BY <2>1 DEF Failed
  <2>4. DagTurn(acc, r).deps = o /\ DepsTurn(acc, r).deps = dd
    BY <2>1
  <2> QED
    BY <1>1, <1>3, <1>7, <2>1, <2>2, <2>3, <2>4 DEF o, dd
<1> QED
  BY <1>6, <1>7

DagLoop(f, answers) ==
    f[0] = Nothing /\ \A n \in 1..Len(answers) : f[n] = DagTurn(f[n - 1], answers[n])

DepsLoop(f, answers) ==
    f[0] = Nothing /\ \A n \in 1..Len(answers) : f[n] = DepsTurn(f[n - 1], answers[n])

LEMMA NothingIs ==
    ASSUME NEW S
    PROVE  Nothing \in Gathered(S) /\ ~Failed(Nothing) /\ Nothing.deps = <<>>
<1>1. <<>> \in DepMaps(S)
  BY EmptyMap DEF DepMaps, Maps
<1> QED
  BY <1>1 DEF Nothing, Gathered, Failed

LEMMA DagLoops ==
    ASSUME NEW S, NEW answers \in Seq(Answers(S))
    PROVE  DagLoop(DepDAGSteps(answers), answers)
<1> DEFINE N == Len(answers)
           C == Gathered(S)
           step == [p \in C \X (1..N) |-> DagTurn(p[1], answers[p[2]])]
           Turn(st, n) == IF n = 0 THEN Nothing ELSE DagTurn(st[n - 1], answers[n])
           f == DepDAGSteps(answers)
<1>1. N \in Nat /\ \A n \in 1..N : answers[n] \in Answers(S)
  OBVIOUS
<1>2. ASSUME NEW acc \in C, NEW n \in 1..N
      PROVE  DagTurn(acc, answers[n]) \in C
  BY <1>1, GatherIs
<1>3. step \in [C \X (1..N) -> C]
  <2> HIDE DEF C, N
  <2> QED
    BY <1>2
<1>4. PICK st \in [0..N -> C] : Iteration(st, N, Nothing, step)
  <2>1. Nothing \in C
    BY NothingIs
  <2> HIDE DEF C, N, step
  <2> QED
    BY <1>1, <1>3, <2>1, Iterates
<1> HIDE DEF C
<1>5. ASSUME NEW n \in 0..N
      PROVE  st[n] = Turn(st, n)
  <2> HIDE DEF N
  <2>1. n # 0 => n \in 1..N /\ <<st[n - 1], n>> \in C \X (1..N)
    BY <1>1, <1>4
  <2> QED
    BY <1>4, <2>1 DEF Iteration
<1>6. \E g : g = [n \in 0..N |-> Turn(g, n)]
  <2>1. st = [n \in 0..N |-> Turn(st, n)]
    <3> HIDE DEF Turn, N
    <3> QED
      BY <1>4, <1>5
  <2> QED
    BY <2>1
<1>7. f = [n \in 0..N |-> Turn(f, n)]
  BY <1>6 DEF DepDAGSteps, DagTurn, Nothing
<1> HIDE DEF f
<1>8. \A n \in 0..N : f[n] = Turn(f, n)
  <2> HIDE DEF Turn, N
  <2> QED
    BY <1>7
<1>9. 0 \in 0..N /\ \A n \in 1..N : n # 0 /\ n \in 0..N
  BY <1>1
<1> QED
  BY <1>8, <1>9 DEF DagLoop, f

LEMMA DepsLoops ==
    ASSUME NEW S, NEW answers \in Seq(Answers(S))
    PROVE  DepsLoop(DepsSteps(answers), answers)
<1> DEFINE N == Len(answers)
           C == Gathered(S)
           step == [p \in C \X (1..N) |-> DepsTurn(p[1], answers[p[2]])]
           Turn(st, n) == IF n = 0 THEN Nothing ELSE DepsTurn(st[n - 1], answers[n])
           f == DepsSteps(answers)
<1>1. N \in Nat /\ \A n \in 1..N : answers[n] \in Answers(S)
  OBVIOUS
<1>2. ASSUME NEW acc \in C, NEW n \in 1..N
      PROVE  DepsTurn(acc, answers[n]) \in C
  BY <1>1, GatherIs
<1>3. step \in [C \X (1..N) -> C]
  <2> HIDE DEF C, N
  <2> QED
    BY <1>2
<1>4. PICK st \in [0..N -> C] : Iteration(st, N, Nothing, step)
  <2>1. Nothing \in C
    BY NothingIs
  <2> HIDE DEF C, N, step
  <2> QED
    BY <1>1, <1>3, <2>1, Iterates
<1> HIDE DEF C
<1>5. ASSUME NEW n \in 0..N
      PROVE  st[n] = Turn(st, n)
  <2> HIDE DEF N
  <2>1. n # 0 => n \in 1..N /\ <<st[n - 1], n>> \in C \X (1..N)
    BY <1>1, <1>4
  <2> QED
    BY <1>4, <2>1 DEF Iteration
<1>6. \E g : g = [n \in 0..N |-> Turn(g, n)]
  <2>1. st = [n \in 0..N |-> Turn(st, n)]
    <3> HIDE DEF Turn, N
    <3> QED
      BY <1>4, <1>5
  <2> QED
    BY <2>1
<1>7. f = [n \in 0..N |-> Turn(f, n)]
  BY <1>6 DEF DepsSteps, DepsTurn, Nothing
<1> HIDE DEF f
<1>8. \A n \in 0..N : f[n] = Turn(f, n)
  <2> HIDE DEF Turn, N
  <2> QED
    BY <1>7
<1>9. 0 \in 0..N /\ \A n \in 1..N : n # 0 /\ n \in 0..N
  BY <1>1
<1> QED
  BY <1>8, <1>9 DEF DepsLoop, f

CoordsOf(ds) == {Coord(ds[i]) : i \in 1..Len(ds)}

LEMMA CoordsKept ==
    ASSUME NEW S, NEW ds \in Seq(Deps(S)), NEW out, DedupedTo(ds, out, S)
    PROVE  CoordsOf(out) = CoordsOf(ds)
<1> DEFINE N == Len(ds)
<1>1. N \in Nat
  OBVIOUS
<1>2. PICK at : Deduped(at, out, ds, N)
  BY DEF DedupedTo
<1>3. ASSUME NEW i \in 1..N
      PROVE  \E k \in 1..Len(out) : Coord(out[k]) = Coord(ds[i])
  BY <1>1, <1>2, FirstFound
<1>4. ASSUME NEW k \in 1..Len(out)
      PROVE  \E i \in 1..N : Coord(out[k]) = Coord(ds[i])
  <2>1. at[k] \in 1..N /\ SameDep(out[k], ds[at[k]])
    BY <1>2 DEF Deduped
  <2> QED
    BY <2>1, SameCoord
<1> QED
  BY <1>3, <1>4 DEF CoordsOf

LastWith(answers, i, n, u) == \A k \in i + 1..n : u \notin DOMAIN answers[k].deps

\* What the first n clients told about their dependencies is in dag and deps.
Heard(dag, deps, answers, n) ==
    \A i \in 1..n : \A u \in DOMAIN answers[i].deps : LastWith(answers, i, n, u) =>
        /\ u \in DOMAIN dag.deps /\ dag.deps[u] = answers[i].deps[u]
        /\ u \in DOMAIN deps.deps
        /\ NoClash(answers[i].deps[u]) => CoordsOf(deps.deps[u]) = CoordsOf(answers[i].deps[u])

\* Lists of the same coordinates are both without a clash.
LEMMA ClashOfCoords ==
    ASSUME NEW a, NEW b, NoClash(a), CoordsOf(a) = CoordsOf(b)
    PROVE  NoClash(b)
<1>1. \A k \in 1..Len(b) : \E i \in 1..Len(a) : Coord(b[k]) = Coord(a[i])
  <2>1. \A k \in 1..Len(b) : Coord(b[k]) \in CoordsOf(a)
    BY DEF CoordsOf
  <2> QED
    BY <2>1 DEF CoordsOf
<1> QED
  BY <1>1, ClashByCoord

LEMMA HeardKept ==
    ASSUME NEW S, NEW n \in Nat \ {0}, NEW answers, answers[n] \in Answers(S),
           NEW dag \in Gathered(S), NEW deps \in Gathered(S), Heard(dag, deps, answers, n - 1),
           ~Failed(dag), ~Failed(deps), ~Failed(answers[n])
    PROVE  Heard(DagTurn(dag, answers[n]), DepsTurn(deps, answers[n]), answers, n)
<1> DEFINE r == answers[n]
           d == Override(dag.deps, r.deps)
           o == Override(deps.deps, r.deps)
           newDag == DagTurn(dag, r)
           newDeps == DepsTurn(deps, r)
           T == Seq(Deps(S))
<1>1. /\ newDag.deps = d /\ newDeps.deps = deduplicateDependencies(o)
      /\ dag.deps \in DepMaps(S) /\ r.deps \in DepMaps(S) /\ deps.deps \in DepMaps(S)
      /\ o \in DepMaps(S)
  BY GatherIs
<1> HIDE DEF T
<1>2. DepMaps(S) = Maps(S, T)
  BY DEF DepMaps, Maps, T
<1>3. /\ DOMAIN d = DOMAIN dag.deps \cup DOMAIN r.deps
      /\ \A u \in DOMAIN r.deps : d[u] = r.deps[u]
      /\ \A u \in DOMAIN dag.deps \ DOMAIN r.deps : d[u] = dag.deps[u]
  <2> DEFINE a == dag.deps
             b == r.deps
  <2>1. a \in Maps(S, T) /\ b \in Maps(S, T) /\ d = Override(a, b)
    BY <1>1, <1>2
  <2> HIDE DEF d, a, b
  <2>2. /\ DOMAIN Override(a, b) = DOMAIN a \cup DOMAIN b
        /\ \A u \in DOMAIN b : Override(a, b)[u] = b[u]
        /\ \A u \in DOMAIN a \ DOMAIN b : Override(a, b)[u] = a[u]
    <3>1. Overridden(a, b, Override(a, b))
      BY <2>1, OverrideIs
    <3> QED
      BY <3>1 DEF Overridden
  <2> QED
    BY <2>1, <2>2 DEF a, b
<1>4. /\ DOMAIN o = DOMAIN deps.deps \cup DOMAIN r.deps
      /\ \A u \in DOMAIN r.deps : o[u] = r.deps[u]
      /\ \A u \in DOMAIN deps.deps \ DOMAIN r.deps : o[u] = deps.deps[u]
  <2> DEFINE a == deps.deps
             b == r.deps
  <2>1. a \in Maps(S, T) /\ b \in Maps(S, T) /\ o = Override(a, b)
    BY <1>1, <1>2
  <2> HIDE DEF o, a, b
  <2>2. /\ DOMAIN Override(a, b) = DOMAIN a \cup DOMAIN b
        /\ \A u \in DOMAIN b : Override(a, b)[u] = b[u]
        /\ \A u \in DOMAIN a \ DOMAIN b : Override(a, b)[u] = a[u]
    <3>1. Overridden(a, b, Override(a, b))
      BY <2>1, OverrideIs
    <3> QED
      BY <3>1 DEF Overridden
  <2> QED
    BY <2>1, <2>2 DEF a, b
<1> HIDE DEF d, o, newDag, newDeps
<1>5. /\ DOMAIN newDeps.deps = DOMAIN o
      /\ \A u \in DOMAIN o : NoClash(o[u]) => CoordsOf(newDeps.deps[u]) = CoordsOf(o[u])
  <2> DEFINE dd == deduplicateDependencies(o)
  <2>1. /\ DOMAIN dd = DOMAIN o
        /\ \A u \in DOMAIN o : /\ o[u] \in Seq(Deps(S))
                               /\ dd[u] = Dedup(o[u])
                               /\ NoClash(o[u]) => DedupedTo(o[u], Dedup(o[u]), S)
    BY <1>1, DepListIs
  <2> HIDE DEF dd
  <2>2. \A u \in DOMAIN o : NoClash(o[u]) => CoordsOf(dd[u]) = CoordsOf(o[u])
    BY <2>1, CoordsKept
  <2> QED
    BY <1>1, <2>1, <2>2 DEF dd
<1>6. ASSUME NEW i \in 1..n, NEW u \in DOMAIN answers[i].deps, LastWith(answers, i, n, u)
      PROVE  /\ u \in DOMAIN newDag.deps /\ newDag.deps[u] = answers[i].deps[u]
             /\ u \in DOMAIN newDeps.deps
             /\ NoClash(answers[i].deps[u]) => CoordsOf(newDeps.deps[u]) = CoordsOf(answers[i].deps[u])
  <2>1. CASE i = n
    <3>1. u \in DOMAIN r.deps
      BY <2>1
    <3>2. u \in DOMAIN d /\ d[u] = r.deps[u] /\ u \in DOMAIN o /\ o[u] = r.deps[u]
      BY <1>3, <1>4, <3>1
    <3> QED
      BY <1>1, <1>5, <2>1, <3>2
  <2>2. CASE i # n
    <3>1. i \in 1..n - 1 /\ n \in i + 1..n /\ \A k \in i + 1..n - 1 : k \in i + 1..n
      BY <2>2
    <3>2. u \notin DOMAIN r.deps /\ LastWith(answers, i, n - 1, u)
      BY <1>6, <3>1 DEF LastWith
    <3>3. /\ u \in DOMAIN dag.deps /\ dag.deps[u] = answers[i].deps[u]
          /\ u \in DOMAIN deps.deps
          /\ NoClash(answers[i].deps[u]) => CoordsOf(deps.deps[u]) = CoordsOf(answers[i].deps[u])
      BY <3>1, <3>2 DEF Heard
    <3>4. u \in DOMAIN d /\ d[u] = dag.deps[u] /\ u \in DOMAIN o /\ o[u] = deps.deps[u]
      BY <1>3, <1>4, <3>2, <3>3
    <3>5. NoClash(answers[i].deps[u]) => NoClash(o[u])
      BY <3>3, <3>4, ClashOfCoords
    <3> QED
      BY <1>1, <1>5, <3>3, <3>4, <3>5
  <2> QED
    BY <2>1, <2>2
<1>7. Heard(newDag, newDeps, answers, n)
  BY <1>6 DEF Heard
<1> QED
  BY <1>7 DEF newDag, newDeps

SomeFailed(answers, n) == \E i \in 1..n : Failed(answers[i])

LEMMA DependenciesGathered ==
    ASSUME NEW S, NEW answers \in Seq(Answers(S)), NEW dag, NEW deps,
           dag = FullDepDAGResponse(answers), deps = FullDepsResponse(answers)
    PROVE  /\ dag \in Gathered(S) /\ deps \in Gathered(S)
           /\ Failed(dag) <=> SomeFailed(answers, Len(answers))
           /\ Failed(deps) <=> SomeFailed(answers, Len(answers))
           /\ ~SomeFailed(answers, Len(answers)) => Heard(dag, deps, answers, Len(answers))
<1> DEFINE N == Len(answers)
           f == DepDAGSteps(answers)
           g == DepsSteps(answers)
           Ok(n) == /\ f[n] \in Gathered(S) /\ g[n] \in Gathered(S)
                    /\ Failed(f[n]) <=> SomeFailed(answers, n)
                    /\ Failed(g[n]) <=> SomeFailed(answers, n)
                    /\ ~SomeFailed(answers, n) => Heard(f[n], g[n], answers, n)
           Q == {n \in 0..N : Ok(n)}
<1>1. N \in Nat /\ \A n \in 1..N : answers[n] \in Answers(S)
  OBVIOUS
<1>2. f[0] = Nothing /\ \A n \in 1..N : f[n] = DagTurn(f[n - 1], answers[n])
  <2>1. DagLoop(f, answers)
    BY DagLoops
  <2> HIDE DEF f
  <2> QED
    BY <2>1 DEF DagLoop
<1>3. g[0] = Nothing /\ \A n \in 1..N : g[n] = DepsTurn(g[n - 1], answers[n])
  <2>1. DepsLoop(g, answers)
    BY DepsLoops
  <2> HIDE DEF g
  <2> QED
    BY <2>1 DEF DepsLoop
<1> HIDE DEF f, g, N
<1>4. Ok(0)
  <2>1. Nothing \in Gathered(S) /\ ~Failed(Nothing)
    BY NothingIs
  <2>2. ~SomeFailed(answers, 0) /\ Heard(f[0], g[0], answers, 0)
    BY DEF SomeFailed, Heard
  <2> QED
    BY <1>2, <1>3, <2>1, <2>2
<1>5. ASSUME NEW n \in 1..N, Ok(n - 1)
      PROVE  Ok(n)
  <2> DEFINE a == f[n - 1]
             b == g[n - 1]
             r == answers[n]
  <2>1. /\ n \in Nat \ {0} /\ r \in Answers(S) /\ a \in Gathered(S) /\ b \in Gathered(S)
        /\ f[n] = DagTurn(a, r) /\ g[n] = DepsTurn(b, r)
    BY <1>1, <1>2, <1>3, <1>5
  <2>2. /\ Failed(a) <=> SomeFailed(answers, n - 1)
        /\ Failed(b) <=> SomeFailed(answers, n - 1)
        /\ ~SomeFailed(answers, n - 1) => Heard(a, b, answers, n - 1)
    BY <1>5
  <2>3. SomeFailed(answers, n) <=> SomeFailed(answers, n - 1) \/ Failed(r)
    <3>1. \A i \in 1..n : i = n \/ i \in 1..n - 1
      OBVIOUS
    <3>2. n \in 1..n /\ \A i \in 1..n - 1 : i \in 1..n
      OBVIOUS
    <3> QED
      BY <3>1, <3>2 DEF SomeFailed
  <2> HIDE DEF a, b
  <2>4. /\ DagTurn(a, r) \in Gathered(S) /\ (Failed(DagTurn(a, r)) <=> Failed(a) \/ Failed(r))
    BY <2>1, GatherIs
  <2>5. /\ DepsTurn(b, r) \in Gathered(S) /\ (Failed(DepsTurn(b, r)) <=> Failed(b) \/ Failed(r))
    BY <2>1, GatherIs
  <2>6. ASSUME ~SomeFailed(answers, n)
        PROVE  Heard(f[n], g[n], answers, n)
    <3>1. Heard(a, b, answers, n - 1) /\ ~Failed(a) /\ ~Failed(b) /\ ~Failed(r)
      BY <2>2, <2>3, <2>6
    <3>2. Heard(DagTurn(a, r), DepsTurn(b, r), answers, n)
      BY <2>1, <3>1, HeardKept
    <3> QED
      BY <2>1, <3>2
  <2> QED
    BY <2>1, <2>2, <2>3, <2>4, <2>5, <2>6
<1> HIDE DEF Ok
<1>6. 0 \in Q /\ \A n \in 1..N : n - 1 \in Q => n \in Q
  BY <1>1, <1>4, <1>5
<1> HIDE DEF Q
<1>7. \A n \in 0..N : n \in Q
  BY <1>1, <1>6, Upto
<1>8. Ok(N)
  <2>1. N \in 0..N
    BY <1>1
  <2> QED
    BY <1>7, <2>1 DEF Q
<1>9. dag = f[N] /\ deps = g[N]
  BY DEF FullDepDAGResponse, FullDepsResponse, f, g, N
<1> QED
  BY <1>8, <1>9 DEF Ok, N

Hit(x) == x.matched
Replies(S) == [err : BOOLEAN, matched : BOOLEAN, incidents : Seq(S), context : Maps(S, S)]
NoReply == [err |-> FALSE, matched |-> FALSE, incidents |-> <<>>, context |-> <<>>]

ReplyTurn(acc, r) ==
    IF acc.err THEN acc
    ELSE IF r.err THEN [acc EXCEPT !.err = TRUE]
    ELSE [err |-> FALSE, matched |-> acc.matched \/ r.matched,
          incidents |-> acc.incidents \o r.incidents,
          context |-> Override(acc.context, r.context)]

LEMMA ReplyIs ==
    ASSUME NEW S, NEW acc \in Replies(S), NEW r \in Answers(S)
    PROVE  /\ acc.incidents \in Seq(S) /\ r.incidents \in Seq(S)
           /\ ReplyTurn(acc, r) \in Replies(S)
           /\ Failed(ReplyTurn(acc, r)) <=> Failed(acc) \/ Failed(r)
           /\ ~(Failed(acc) \/ Failed(r)) =>
                 /\ Hit(ReplyTurn(acc, r)) <=> Hit(acc) \/ Hit(r)
                 /\ ReplyTurn(acc, r).incidents = acc.incidents \o r.incidents
<1> DEFINE context == Override(acc.context, r.context)
           incidents == acc.incidents \o r.incidents
           matched == Hit(acc) \/ Hit(r)
           new == [err |-> FALSE, matched |-> matched, incidents |-> incidents, context |-> context]
<1>1. /\ acc.incidents \in Seq(S) /\ r.incidents \in Seq(S)
      /\ acc.context \in Maps(S, S) /\ r.context \in Maps(S, S)
  BY DEF Replies, Answers, Maps
<1>2. context \in Maps(S, S)
  BY <1>1, OverrideIs
<1>3. incidents \in Seq(S)
  BY <1>1
<1>4. matched \in BOOLEAN
  OBVIOUS
<1> HIDE DEF context, incidents, matched
<1>5. CASE Failed(acc)
  <2>1. ReplyTurn(acc, r) = acc
    BY <1>5 DEF ReplyTurn, Failed
  <2> QED
    BY <1>1, <1>5, <2>1
<1>6. CASE ~Failed(acc) /\ Failed(r)
  <2>1. ReplyTurn(acc, r) = [acc EXCEPT !.err = TRUE]
    BY <1>6 DEF ReplyTurn, Failed
  <2>2. [acc EXCEPT !.err = TRUE] \in Replies(S) /\ Failed([acc EXCEPT !.err = TRUE])
    BY DEF Replies, Failed
  <2> QED
    BY <1>1, <1>6, <2>1, <2>2
<1>7. CASE ~Failed(acc) /\ ~Failed(r)
  <2>1. ReplyTurn(acc, r) = new
    BY <1>7 DEF ReplyTurn, Failed, context, incidents, matched, Hit
  <2>2. new \in Replies(S)
    BY <1>2, <1>3, <1>4 DEF Replies
  <2>3. ~Failed(new) /\ new.incidents = incidents
    BY DEF Failed
  <2>4. Hit(new) <=> matched
    BY DEF Hit
  <2> HIDE DEF new
  <2> QED
    BY <1>1, <1>7, <2>1, <2>2, <2>3, <2>4 DEF incidents, matched
<1> QED
  BY <1>5, <1>6, <1>7

ReplyLoop(f, answers) ==
    f[0] = NoReply /\ \A n \in 1..Len(answers) : f[n] = ReplyTurn(f[n - 1], answers[n])

LEMMA NoReplyIs ==
    ASSUME NEW S
    PROVE  NoReply \in Replies(S) /\ ~Failed(NoReply) /\ ~Hit(NoReply)
<1>1. <<>> \in Maps(S, S) /\ <<>> \in Seq(S)
  BY EmptyMap
<1>2. NoReply \in Replies(S)
  BY <1>1 DEF NoReply, Replies
<1>3. ~Failed(NoReply) /\ ~Hit(NoReply)
  BY DEF NoReply, Failed, Hit
<1> QED
  BY <1>2, <1>3

LEMMA ReplyLoops ==
    ASSUME NEW S, NEW answers \in Seq(Answers(S))
    PROVE  ReplyLoop(ResponseSteps(answers), answers)
<1> DEFINE N == Len(answers)
           C == Replies(S)
           step == [p \in C \X (1..N) |-> ReplyTurn(p[1], answers[p[2]])]
           Turn(st, n) == IF n = 0 THEN NoReply ELSE ReplyTurn(st[n - 1], answers[n])
           f == ResponseSteps(answers)
<1>1. N \in Nat /\ \A n \in 1..N : answers[n] \in Answers(S)
  OBVIOUS
<1>2. ASSUME NEW acc \in C, NEW n \in 1..N
      PROVE  ReplyTurn(acc, answers[n]) \in C
  <2> DEFINE r == answers[n]
  <2>1. r \in Answers(S)
    BY <1>1
  <2> HIDE DEF r
  <2>2. ReplyTurn(acc, r) \in Replies(S)
    BY <2>1, ReplyIs
  <2> QED
    BY <2>2 DEF r
<1>3. step \in [C \X (1..N) -> C]
  <2> HIDE DEF C, N
  <2> QED
    BY <1>2
<1>4. PICK st \in [0..N -> C] : Iteration(st, N, NoReply, step)
  <2>1. NoReply \in C
    BY NoReplyIs
  <2> HIDE DEF C, N, step
  <2> QED
    BY <1>1, <1>3, <2>1, Iterates
<1> HIDE DEF C
<1>5. ASSUME NEW n \in 0..N
      PROVE  st[n] = Turn(st, n)
  <2> HIDE DEF N
  <2>1. n # 0 => n \in 1..N /\ <<st[n - 1], n>> \in C \X (1..N)
    BY <1>1, <1>4
  <2> QED
    BY <1>4, <2>1 DEF Iteration
<1>6. \E g : g = [n \in 0..N |-> Turn(g, n)]
  <2>1. st = [n \in 0..N |-> Turn(st, n)]
    <3> HIDE DEF Turn, N
    <3> QED
      BY <1>4, <1>5
  <2> QED
    BY <2>1
<1>7. f = [n \in 0..N |-> Turn(f, n)]
  BY <1>6 DEF ResponseSteps, ReplyTurn, NoReply
<1> HIDE DEF f
<1>8. \A n \in 0..N : f[n] = Turn(f, n)
  <2> HIDE DEF Turn, N
  <2> QED
    BY <1>7
<1>9. 0 \in 0..N /\ \A n \in 1..N : n # 0 /\ n \in 0..N
  BY <1>1
<1> QED
  BY <1>8, <1>9 DEF ReplyLoop, f

\* The answers of the first n clients are in acc.
Replied(acc, answers, n) ==
    /\ Hit(acc) <=> \E i \in 1..n : Hit(answers[i])
    /\ \A i \in 1..n : \A h \in 1..Len(answers[i].incidents) :
          \E k \in 1..Len(acc.incidents) : acc.incidents[k] = answers[i].incidents[h]

LEMMA RepliedKept ==
    ASSUME NEW S, NEW n \in Nat \ {0}, NEW answers, answers[n] \in Answers(S), NEW acc \in Replies(S),
           Replied(acc, answers, n - 1), ~Failed(acc), ~Failed(answers[n])
    PROVE  Replied(ReplyTurn(acc, answers[n]), answers, n)
<1> DEFINE r == answers[n]
           new == ReplyTurn(acc, r)
           a == acc.incidents
           b == r.incidents
<1>1. a \in Seq(S) /\ b \in Seq(S) /\ (Hit(new) <=> Hit(acc) \/ Hit(r)) /\ new.incidents = a \o b
  BY ReplyIs
<1>2. \A i \in 1..n : i = n \/ i \in 1..n - 1
  OBVIOUS
<1>3. n \in 1..n /\ \A i \in 1..n - 1 : i \in 1..n
  OBVIOUS
<1>4. /\ Hit(acc) <=> \E i \in 1..n - 1 : Hit(answers[i])
      /\ \A i \in 1..n - 1 : \A h \in 1..Len(answers[i].incidents) :
            \E k \in 1..Len(a) : a[k] = answers[i].incidents[h]
  BY DEF Replied
<1> HIDE DEF new, a, b
<1>5. Hit(new) <=> \E i \in 1..n : Hit(answers[i])
  BY <1>1, <1>2, <1>3, <1>4
<1> DEFINE c == a \o b
<1>6. /\ Len(a) \in Nat /\ Len(b) \in Nat /\ Len(c) = Len(a) + Len(b)
      /\ \A k \in 1..Len(a) : c[k] = a[k]
      /\ \A k \in 1..Len(b) : c[Len(a) + k] = b[k]
  BY <1>1
<1> HIDE DEF c
<1>7. ASSUME NEW i \in 1..n, NEW h \in 1..Len(answers[i].incidents)
      PROVE  \E k \in 1..Len(c) : c[k] = answers[i].incidents[h]
  <2>1. CASE i = n
    <3>1. h \in 1..Len(b) /\ b[h] = answers[i].incidents[h]
      BY <2>1 DEF b
    <3>2. Len(a) + h \in 1..Len(c) /\ c[Len(a) + h] = b[h]
      BY <1>6, <3>1
    <3> QED
      BY <3>1, <3>2
  <2>2. CASE i # n
    <3>1. i \in 1..n - 1
      BY <1>2, <2>2
    <3>2. PICK k \in 1..Len(a) : a[k] = answers[i].incidents[h]
      BY <1>4, <3>1
    <3>3. k \in 1..Len(c) /\ c[k] = a[k]
      BY <1>6
    <3> QED
      BY <3>2, <3>3
  <2> QED
    BY <2>1, <2>2
<1>8. new.incidents = c
  BY <1>1 DEF c
<1>9. Replied(new, answers, n)
  BY <1>5, <1>7, <1>8 DEF Replied
<1> QED
  BY <1>9 DEF new

LEMMA RepliesGathered ==
    ASSUME NEW S, NEW answers \in Seq(Answers(S)), NEW reply, reply = FullResponseFromServiceClients(answers)
    PROVE  /\ reply \in Replies(S)
           /\ Failed(reply) <=> SomeFailed(answers, Len(answers))
           /\ ~SomeFailed(answers, Len(answers)) => Replied(reply, answers, Len(answers))
<1> DEFINE N == Len(answers)
           f == ResponseSteps(answers)
           Ok(n) == /\ f[n] \in Replies(S)
                    /\ Failed(f[n]) <=> SomeFailed(answers, n)
                    /\ ~SomeFailed(answers, n) => Replied(f[n], answers, n)
           Q == {n \in 0..N : Ok(n)}
<1>1. N \in Nat /\ \A n \in 1..N : answers[n] \in Answers(S)
  OBVIOUS
<1>2. f[0] = NoReply /\ \A n \in 1..N : f[n] = ReplyTurn(f[n - 1], answers[n])
  <2>1. ReplyLoop(f, answers)
    BY ReplyLoops
  <2> HIDE DEF f
  <2> QED
    BY <2>1 DEF ReplyLoop
<1> HIDE DEF f, N
<1>3. Ok(0)
  <2>1. NoReply \in Replies(S) /\ ~Failed(NoReply) /\ ~Hit(NoReply)
    BY NoReplyIs
  <2>2. ~SomeFailed(answers, 0)
    BY DEF SomeFailed
  <2>3. Replied(NoReply, answers, 0)
    BY <2>1 DEF Replied
  <2> QED
    BY <1>2, <2>1, <2>2, <2>3
<1>4. ASSUME NEW n \in 1..N, Ok(n - 1)
      PROVE  Ok(n)
  <2> DEFINE acc == f[n - 1]
             r == answers[n]
  <2>1. n \in Nat \ {0} /\ r \in Answers(S) /\ acc \in Replies(S) /\ f[n] = ReplyTurn(acc, r)
    BY <1>1, <1>2, <1>4
  <2>2. /\ Failed(acc) <=> SomeFailed(answers, n - 1)
        /\ ~SomeFailed(answers, n - 1) => Replied(acc, answers, n - 1)
    BY <1>4
  <2>3. SomeFailed(answers, n) <=> SomeFailed(answers, n - 1) \/ Failed(r)
    <3>1. \A i \in 1..n : i = n \/ i \in 1..n - 1
      OBVIOUS
    <3>2. n \in 1..n /\ \A i \in 1..n - 1 : i \in 1..n
      OBVIOUS
    <3> QED
      BY <3>1, <3>2 DEF SomeFailed
  <2> HIDE DEF acc
  <2>4. ReplyTurn(acc, r) \in Replies(S) /\ (Failed(ReplyTurn(acc, r)) <=> Failed(acc) \/ Failed(r))
    BY <2>1, ReplyIs
  <2>5. ASSUME ~SomeFailed(answers, n)
        PROVE  Replied(f[n], answers, n)
    <3>1. Replied(acc, answers, n - 1) /\ ~Failed(acc) /\ ~Failed(r)
      BY <2>2, <2>3, <2>5
    <3>2. Replied(ReplyTurn(acc, r), answers, n)
      BY <2>1, <3>1, RepliedKept
    <3> QED
      BY <2>1, <3>2
  <2> QED
    BY <2>1, <2>2, <2>3, <2>4, <2>5
<1> HIDE DEF Ok
<1>5. 0 \in Q /\ \A n \in 1..N : n - 1 \in Q => n \in Q
  BY <1>1, <1>3, <1>4
<1> HIDE DEF Q
<1>6. \A n \in 0..N : n \in Q
  BY <1>1, <1>5, Upto
<1>7. Ok(N)
  <2>1. N \in 0..N
    BY <1>1
  <2> QED
    BY <1>6, <2>1 DEF Q
<1>8. reply = f[N]
  BY DEF FullResponseFromServiceClients, f, N
<1> QED
  BY <1>7, <1>8 DEF Ok, N

LEMMA AllClientsHeard ==
    ASSUME NEW S, NEW answers \in Seq(Answers(S))
    PROVE  ClientsHeard(answers)
<1> DEFINE n == Len(answers)
           r == FullResponseFromServiceClients(answers)
           d == FullDepsResponse(answers)
           dag == FullDepDAGResponse(answers)
<1>1. /\ r \in Replies(S) /\ (Failed(r) <=> SomeFailed(answers, n))
      /\ ~SomeFailed(answers, n) => Replied(r, answers, n)
  BY RepliesGathered
<1>2. /\ dag \in Gathered(S) /\ d \in Gathered(S)
      /\ Failed(dag) <=> SomeFailed(answers, n)
      /\ Failed(d) <=> SomeFailed(answers, n)
      /\ ~SomeFailed(answers, n) => Heard(dag, d, answers, n)
  BY DependenciesGathered
<1> HIDE DEF r, d, dag, n
<1>3. r.err <=> \E i \in 1..n : answers[i].err
  BY <1>1 DEF Failed, SomeFailed
<1>4. d.err = r.err /\ dag.err = r.err
  <2>1. r.err \in BOOLEAN /\ d.err \in BOOLEAN /\ dag.err \in BOOLEAN
    BY <1>1, <1>2 DEF Replies, Gathered
  <2>2. (d.err <=> r.err) /\ (dag.err <=> r.err)
    BY <1>1, <1>2 DEF Failed
  <2> QED
    BY <2>1, <2>2
<1>5. ASSUME ~r.err
      PROVE  /\ r.matched <=> \E i \in 1..n : answers[i].matched
             /\ \A i \in 1..n : \A h \in 1..Len(answers[i].incidents) :
                   \E k \in 1..Len(r.incidents) : r.incidents[k] = answers[i].incidents[h]
             /\ \A i \in 1..n : \A u \in DOMAIN answers[i].deps :
                   (\A k \in i + 1..n : u \notin DOMAIN answers[k].deps) =>
                      /\ u \in DOMAIN d.deps
                      /\ NoClash(answers[i].deps[u]) =>
                            {Coord(d.deps[u][h]) : h \in 1..Len(d.deps[u])}
                              = {Coord(answers[i].deps[u][h]) : h \in 1..Len(answers[i].deps[u])}
                      /\ u \in DOMAIN dag.deps /\ dag.deps[u] = answers[i].deps[u]
  <2>1. Replied(r, answers, n) /\ Heard(dag, d, answers, n)
    BY <1>1, <1>2, <1>5 DEF Failed
  <2>2. r.matched <=> \E i \in 1..n : answers[i].matched
    BY <2>1 DEF Replied, Hit
  <2>3. \A i \in 1..n : \A h \in 1..Len(answers[i].incidents) :
           \E k \in 1..Len(r.incidents) : r.incidents[k] = answers[i].incidents[h]
    BY <2>1 DEF Replied
  <2>4. ASSUME NEW i \in 1..n, NEW u \in DOMAIN answers[i].deps,
               \A k \in i + 1..n : u \notin DOMAIN answers[k].deps
        PROVE  /\ u \in DOMAIN d.deps
               /\ NoClash(answers[i].deps[u]) =>
                     {Coord(d.deps[u][h]) : h \in 1..Len(d.deps[u])}
                       = {Coord(answers[i].deps[u][h]) : h \in 1..Len(answers[i].deps[u])}
               /\ u \in DOMAIN dag.deps /\ dag.deps[u] = answers[i].deps[u]
    <3>1. LastWith(answers, i, n, u)
      BY <2>4 DEF LastWith
    <3>2. /\ u \in DOMAIN dag.deps /\ dag.deps[u] = answers[i].deps[u]
          /\ u \in DOMAIN d.deps
          /\ NoClash(answers[i].deps[u]) => CoordsOf(d.deps[u]) = CoordsOf(answers[i].deps[u])
      BY <2>1, <3>1 DEF Heard
    <3> QED
      BY <3>2, Zenon DEF CoordsOf
  <2> QED
    BY <2>2, <2>3, <2>4, Zenon
<1> QED
  BY <1>3, <1>4, <1>5, Zenon DEF ClientsHeard, r, d, dag, n
-----------------------------------------------------------------------------
\* Scopes hold, in the engine and in the file search of the providers
\* (engine/scopes.go, provider/lib.go), whatever they are given.
THEOREM ScopesAlwaysHold ==
    ASSUME NEW S, InputOver(S)
    PROVE  ScopesHold
<1>1. ASSUME Is("scopes")
      PROVE  ScopesAgree(input.x.scopes, input.x.files)
  <2>1. input.x.scopes \in ScopeLists(S)
    BY <1>1 DEF InputOver, InputsOver
  <2> QED
    BY <2>1, EngineScopes
<1>2. ASSUME Is("search")
      PROVE  /\ IndexAgrees(input.x.s, input.x.tree)
             /\ ScopesRespected(input.x.s, input.x.copies, input.x.tree)
             /\ CopiesReplace(input.x.s, input.x.copies, input.x.tree)
             /\ ChainScopesDown(input.x.s, input.x.copies, input.x.tree)
  <2>1. input.x \in SearchInputs
    BY <1>2 DEF InputOver, InputsOver
  <2> QED
    BY <2>1, ChainScoped, ScopesKept, CopiesInPlace, IndexFindsSame
<1> QED
  BY <1>1, <1>2 DEF ScopesHold

\* createViolation and getCodeLocation (engine/engine.go) neither lose nor
\* repeat anything, whatever the conditions found.
THEOREM ViolationsAlwaysComplete ==
    ASSUME NEW S, InputOver(S)
    PROVE  ViolationsComplete
<1>1. ASSUME Is("violation")
      PROVE  ViolationComplete(input.x.incidents, input.x.limit, input.x.snips,
                               input.x.scope, input.x.unselected)
  <2>1. input.x.incidents \in Seq(Incidents(S)) /\ input.x.limit \in Nat /\ input.x.snips \in Nat
    BY <1>1 DEF InputOver, InputsOver
  <2> QED
    BY <2>1, ViolationsAreComplete
<1>2. ASSUME Is("snippet")
      PROVE  SnippetExact(input.x.lines, input.x.start, input.x.end, input.x.context)
  <2>1. /\ input.x.lines \in Nat /\ input.x.start \in Nat
        /\ input.x.end \in Nat /\ input.x.context \in Nat
    BY <1>2 DEF InputOver, InputsOver
  <2> QED
    BY <2>1, SnippetsExact
<1> QED
  BY <1>1, <1>2 DEF ViolationsComplete

\* A label selector selects the same rules wherever it is applied and a wider
\* label is selected by more (engine/labels/labels.go, parser/rule_parser.go,
\* filterRules of engine/engine.go), for every expression and rule set.
THEOREM LabelsAlwaysSelect ==
    ASSUME NEW S, InputOver(S)
    PROVE  LabelsSelect
<1>1. ASSUME Is("ranges")
      PROVE  WiderMatchesMore(input.x.m, input.x.w, input.x.c)
  <2>1. input.x.m \in LabelValues(S) /\ input.x.w \in LabelValues(S) /\ input.x.c \in LabelValues(S)
    BY <1>1 DEF InputOver, InputsOver
  <2> QED
    BY <2>1, WiderMatches
<1>2. ASSUME Is("selection")
      PROVE  SelectionAgrees(input.x.expr, input.x.rs, input.x.rules)
  <2>1. /\ input.x.expr \in Expressions(S) /\ input.x.rs \in Seq(AllLabels(S))
        /\ input.x.rules \in Seq(Seq(AllLabels(S)))
    BY <1>2 DEF InputOver, InputsOver
  <2> QED
    BY <2>1, SelectionsAgree
<1> QED
  BY <1>1, <1>2 DEF LabelsSelect

\* Deduplication, the answers of the service clients put together, dependency
\* conditions and the dependency label selector (provider/provider.go) find
\* what they should, whatever dependencies there are.
THEOREM DependenciesAlwaysFound ==
    ASSUME NEW S, InputOver(S)
    PROVE  DependenciesFound
<1>1. ASSUME Is("deps")
      PROVE  DedupExact(input.x)
  <2>1. input.x \in Seq(Deps(S))
    BY <1>1 DEF InputOver, InputsOver
  <2> QED
    BY <2>1, DedupsExact
<1>2. ASSUME Is("clients")
      PROVE  ClientsHeard(input.x)
  <2>1. input.x \in Seq(Answers(S))
    BY <1>2 DEF InputOver, InputsOver
  <2> QED
    BY <2>1, AllClientsHeard
<1>3. ASSUME Is("depCondition")
      PROVE  ConditionExact(input.x.c, input.x.deps)
  <2>1. input.x.c \in DepConditions(S) /\ input.x.deps \in DepMaps(S)
    BY <1>3 DEF InputOver, InputsOver
  <2> QED
    BY <2>1, ConditionsExact
<1>4. ASSUME Is("depSelector")
      PROVE  SelectorExact(input.x.incs, input.x.deps)
  <2>1. input.x.deps \in DepMaps(S) /\ input.x.incs \in SUBSET [uri : Seq(S), dep : BOOLEAN]
    BY <1>4 DEF InputOver, InputsOver
  <2> QED
    BY <2>1, SelectorsExact
<1> QED
  BY <1>1, <1>2, <1>3, <1>4 DEF DependenciesFound
===============================================================================
