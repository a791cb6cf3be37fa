---------------------------- MODULE MCSettings ----------------------------
EXTENDS Settings
\* Both Groq sections keep their key under one account.
MCAccount == [s \in Legacy |-> IF s = "refinement.lm_studio" THEN "lm_studio" ELSE "groq"]
=============================================================================
