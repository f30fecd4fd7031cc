--------------------------- MODULE MCBluezBackend ---------------------------
EXTENDS BluezBackend

CONSTANTS t1, t2

\* One task connects again and again; the other does so too, or something else.
MCJobs == {[t \in {t1, t2} |-> IF t = t1 THEN "connect" ELSE other] :
                other \in {"connect", "acquire", "scan"}}
=============================================================================
