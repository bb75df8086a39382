----------------------------- MODULE MCAutoconf -----------------------------
(***************************************************************************)
(* Instances of Autoconf for TLC.                                          *)
(***************************************************************************)
EXTENDS Autoconf

CONSTANTS p1, p2, github, npm, v1, v2, gitconfig, golang, port

OneSecret == <<github>>

EnvValue == [n \in {github} |-> v1]

OneFile == <<gitconfig>>

OneFeature == <<golang>>

OnePort == {port}

\* Another value for the secret that autoconf finds, and another secret.
OtherSecrets == {[name |-> github, for |-> v2], [name |-> npm, for |-> v1]}

\* The first and the last of the four items.
ShortVertex == <<"use", "adc">>

\* The runner asks the store at most three times for a secret in each run.
RunnerOps == [p \in Procs |-> IF p = Runner THEN 6 * Len(Secrets) ELSE 1]
=============================================================================
