------------------------------ MODULE MCCaseLaw ------------------------------
(* Finite instances of CaseLaw: a decision of the archive, a curated one that *)
(* is not there, and the ways to cite them or neither.                        *)
EXTENDS CaseLaw

CONSTANTS n1, n2, i1, i2

VARIABLE key   \* the cache entry that the calls of a behaviour meet on

MCCalls == {i1, i2}
MCTitle == [n \in Numbers |-> <<"fmx", "v", "hmrc">>]
MCAuthorities ==
  << [short |-> <<"polkey">>, full |-> <<"polkey", "v", "dayton">>, number |-> n2],
     [short |-> <<"iceland", "frozen">>, full |-> <<"iceland", "frozen", "v", "jones">>, number |-> n1] >>

Cited(number, words, name) == [number |-> number, words |-> words, name |-> name]

MCCitations ==
  { Cited(n1, <<"fmx", "v", "hmrc">>, <<>>), Cited(n1, <<"nobody", "v", "ltd">>, <<>>),
    Cited(n1, <<>>, <<"fmx", "v", "hmrc">>), Cited(n1, <<>>, <<"nobody", "v", "ltd">>),
    Cited(n1, <<"polkey", "v", "dayton">>, <<>>), Cited(NoNumber, <<"the", "polkey">>, <<>>),
    Cited(NoNumber, <<>>, <<"fmx", "v", "hmrc">>), Cited(n2, <<"polkey", "v", "dayton">>, <<>>) }

MCCaseLawInit == CaseLawInit /\ key \in LawKeys

MCCaseLawNext ==
  /\ UNCHANGED key
  /\ \/ Tick
     \/ \E n \in Numbers : Publish(n)
     \/ \E i \in Calls : GoesOn(i)
     \/ \E i \in Calls, c \in Citations : Key(c) = key /\ Validate(i, c)

MCCaseLawSpec == MCCaseLawInit /\ [][MCCaseLawNext]_<<caseLawVars, key>>

=============================================================================
