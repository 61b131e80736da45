------------------------------ MODULE MCOnesig ------------------------------
(* Instances of Onesig: every program beside every other for one account, or  *)
(* for two, and two payments of one account with a recovery; fees as they     *)
(* were on Coston2, and after a rise.                                         *)
EXTENDS Onesig

CONSTANTS s1, s2, s3

Role(program, account) == [program |-> program, account |-> account]
Cast(r1, r2, r3) == [s \in Sessions |-> CASE s = s1 -> r1 [] s = s2 -> r2 [] OTHER -> r3]

\* Sessions start in any order, so half of the ordered pairs are enough; of two accounts,
\* those that meet somewhere: in the counter or in a job.
Ordered == <<"xaman", "deposit", "gate", "instruct", "recover">>
Half == {<<i, j>> \in (1 .. 4) \X (1 .. 5) : i <= j}
Pair(program, other, account) ==
    Cast(Role(program, "alice"), Role(other, account), Role("none", "alice"))
Pairs == {Pair(Ordered[ij[1]], Ordered[ij[2]], "alice") : ij \in Half}
         \cup {Pair(Ordered[ij[1]], Ordered[ij[2]], "bob") :
                   ij \in {h \in Half : h[1] = 3 \/ h[2] \in {3, 5}}}
Trio == Cast(Role("gate", "alice"), Role("gate", "alice"), Role("recover", "alice"))

\* The page does what demo-xaman does up to its verdict.
Everything == Pairs \cup {Trio, Pair("web", "deposit", "alice"), Pair("web", "recover", "alice")}

\* One user of the page, and one of recover-mint.
Believers == {Pair("web", "none", "alice"), Pair("xaman", "recover", "alice")}

\* s1 and s2 are told apart by their roles alone, and every property by neither.
Swapped == Permutations({s1, s2})

Coston2 == [executorFeeUBA |-> 100000, feeBIPS |-> 25, minimumFeeUBA |-> 100000]
Dearer  == [executorFeeUBA |-> 100000, feeBIPS |-> 25, minimumFeeUBA |-> 1500000]
Rises == [n \in 0 .. Raises |-> IF n = 0 THEN Coston2 ELSE Dearer]

=============================================================================
