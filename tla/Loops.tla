------------------------------- MODULE Loops -------------------------------
(***************************************************************************)
(* Loops written as recursive functions: in the surroundings a the step    *)
(* takes state x to Step(a, x, i), for i from 1 to n.  Such a function     *)
(* exists, and what every step keeps holds after the last one.             *)
(***************************************************************************)
EXTENDS Integers, TLAPS, WellFoundedInduction

CONSTANTS Step(_, _, _), Good(_, _, _)

\* g holds the states of the loop, from the first to the last
Course(g, a, start, n) ==
    g = [i \in 0 .. n |-> IF i = 0 THEN start ELSE Step(a, g[i - 1], i)]

\* What holds at first and is kept by each of n steps
Started(a, start, n) == n \in Nat /\ Good(a, start, 0)
Kept(a, n) == \A i \in 1 .. n : \A x : Good(a, x, i - 1) => Good(a, Step(a, x, i), i)

\* A set of natural numbers has a least member
LEMMA LeastNatural ==
    ASSUME NEW T, T \subseteq Nat, T # {}
    PROVE  \E n \in T : \A m \in T : n <= m
  <1> DEFINE R == {x \in Nat \X Nat : x[1] < x[2]}
  <1>1. IsWellFoundedOn(R, Nat)
    BY NatLessThanWellFounded DEF OpToRel
  <1>2. PICK n \in T : \A m \in T : ~(<<m, n>> \in R)
    <2> HIDE DEF R
    <2> QED BY <1>1, WFMin
  <1>3. \A m \in T : ~(m < n)
    BY <1>2
  <1> QED BY <1>3

\* A set of numbers that holds 0, and with each the next, up to n
LEMMA Induction ==
    ASSUME NEW n \in Nat, NEW T, 0 \in T, \A i \in 1 .. n : i - 1 \in T => i \in T
    PROVE  \A i \in 0 .. n : i \in T
  <1> DEFINE Bad == (0 .. n) \ T
  <1>1. SUFFICES ASSUME Bad # {} PROVE FALSE
    OBVIOUS
  <1>2. PICK i \in Bad : \A j \in Bad : i <= j
    <2> HIDE DEF Bad
    <2>1. Bad \subseteq Nat
      BY DEF Bad
    <2> QED BY <1>1, <2>1, LeastNatural
  <1>3. i # 0 /\ i \in 1 .. n /\ i - 1 \in 0 .. n /\ i - 1 \notin Bad
    BY <1>2
  <1> QED BY <1>2, <1>3

\* The loop has a course
LEMMA CourseExists ==
    ASSUME NEW a, NEW start, NEW n \in Nat
    PROVE  \E g : Course(g, a, start, n)
  <1> DEFINE T == {m \in 0 .. n : \E g : Course(g, a, start, m)}
  <1>1. 0 \in T
    <2> DEFINE g == [i \in 0 .. 0 |-> start]
    <2>1. Course(g, a, start, 0) /\ 0 \in 0 .. n
      BY DEF Course
    <2> QED BY <2>1
  <1>2. ASSUME NEW m \in 1 .. n, m - 1 \in T
        PROVE  m \in T
    <2>1. PICK g : Course(g, a, start, m - 1)
      BY <1>2
    <2> DEFINE h == [i \in 0 .. m |-> IF i <= m - 1 THEN g[i] ELSE Step(a, g[m - 1], m)]
    <2>2. \A i \in 0 .. m : h[i] = IF i = 0 THEN start ELSE Step(a, h[i - 1], i)
      BY <2>1 DEF Course
    <2>3. Course(h, a, start, m) /\ m \in 0 .. n
      BY <2>2 DEF Course
    <2> QED BY <2>3
  <1>3. n \in 0 .. n /\ \A i \in 0 .. n : i \in T
    <2> HIDE DEF T
    <2> QED BY <1>1, <1>2, Induction
  <1> QED BY <1>3

\* What the steps keep holds after each of them
LEMMA CourseKeeps ==
    ASSUME NEW a, NEW start, NEW n, NEW g, Course(g, a, start, n), Started(a, start, n), Kept(a, n)
    PROVE  \A i \in 0 .. n : Good(a, g[i], i)
  <1> DEFINE T == {i \in 0 .. n : Good(a, g[i], i)}
  <1>1. n \in Nat /\ 0 \in T
    BY DEF Course, Started
  <1>2. ASSUME NEW i \in 1 .. n, i - 1 \in T
        PROVE  i \in T
    <2>1. Good(a, g[i - 1], i - 1) /\ g[i] = Step(a, g[i - 1], i)
      BY <1>2 DEF Course
    <2> QED BY <1>1, <2>1 DEF Kept
  <1>3. \A i \in 0 .. n : i \in T
    <2> HIDE DEF T
    <2> QED BY <1>1, <1>2, Induction
  <1> QED BY <1>3
=============================================================================
