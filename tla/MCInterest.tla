----------------------------- MODULE MCInterest -----------------------------
EXTENDS Interest

CONSTANTS a, p, q, junk, h1, h2, s1

\* Between them the messages list q in every read-only region, and in one that a
\* header counting more read-only signers than signers leaves empty; Call loads
\* it, and names it as a program, from a lookup table.
Pay == [keys |-> <<a, p, q>>, signed |-> 1, ro_signed |-> 0, ro_unsigned |-> 2,
        loaded |-> <<>>, invokes |-> {1}]
Cosign == [keys |-> <<a, q, a>>, signed |-> 2, ro_signed |-> 1, ro_unsigned |-> 0,
           loaded |-> <<>>, invokes |-> {}]
Odd == [keys |-> <<q, a>>, signed |-> 1, ro_signed |-> 2, ro_unsigned |-> 0,
        loaded |-> <<>>, invokes |-> {}]
Call == [keys |-> <<a>>, signed |-> 1, ro_signed |-> 0, ro_unsigned |-> 0,
         loaded |-> <<q>>, invokes |-> {1}]

MCMessages == {Pay, Cosign, Odd, Call}
MCBundles == {{Pay, Cosign, Odd, Call, junk}, {junk}}
=============================================================================
