----------------------------- MODULE MCArtifactStore -----------------------------
(* Two writers and three references: two of one digest, which is charged    *)
(* once, and one of another.  Under one limit all fit, under the other      *)
(* either digest does and both do not.                                      *)
EXTENDS ArtifactStore, TLC

MCReferences == {"plan as input", "plan as output", "patch"}

MCDigestOf(ref) == IF ref = "patch" THEN "patch" ELSE "plan"

MCSizeOf(digest) == IF digest = "plan" THEN 2 ELSE 1

Symmetric == Permutations(Writers)
================================================================================
