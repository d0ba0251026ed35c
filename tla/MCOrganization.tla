--------------------------- MODULE MCOrganization ---------------------------
(* The register of assets with what its pages show: two laptops of one group and
   one model, both also temporary backups. *)
EXTENDS AssetViews, TLC

Symmetry == UNION {Permutations(S) : S \in {Asset, Member, Loan, Unit}}

MCGroupOf == [a \in Asset |-> "laptops"]
MCModelOf == [a \in Asset |-> "standard"]
=============================================================================
