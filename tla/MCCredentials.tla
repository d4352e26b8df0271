---------------------------- MODULE MCCredentials ----------------------------
(* Instances of Credentials for TLC. *)
EXTENDS Credentials, TLC

CONSTANTS h1, h2
MCHeap == {h1, h2}
MCSymmetry == Permutations(MCHeap)

\* "A" is a variable of the program, set twice when it starts.
MCNames == {"A", "IAMROOT_UID", "IAMROOT_EUID", "IAMROOT_SUID", "IAMROOT_FSUID",
            "IAMROOT_GID", "IAMROOT_EGID", "IAMROOT_SGID", "IAMROOT_FSGID",
            "IAMROOT_GROUPS", "IAMROOT_UMASK"}
MCIamroot == MCNames \ {"A"}
MCValues == {<<0>>, <<1>>}
MCStrings == {[name |-> "A", value |-> <<1>>], [name |-> "A", value |-> NULL],
              [name |-> "IAMROOT_UID", value |-> <<0>>]}
MCInit == <<[name |-> "A", value |-> <<1>>], [name |-> "A", value |-> <<1>>]>>
=============================================================================
