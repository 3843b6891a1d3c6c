---------------------------- MODULE PriceParsing ----------------------------
(***************************************************************************)
(* What the parsers of published prices share: a normalisation comes to    *)
(* rates and warnings or to one error, and every rate has a stable key     *)
(* made of the names it is looked up by.  Amounts are counted in the last  *)
(* digit an amount is kept to; a quotient is cut off there.                *)
(***************************************************************************)
EXTENDS PriceSnapshot

CONSTANTS
  Rank,       \* the place of every name in the order of the stable keys
  YearHours   \* hours of a one-year term; a three-year term has three times as many

Parsed(records, warnings) == [error |-> {}, records |-> records, warnings |-> warnings]
Failed(error) == [error |-> {error}, records |-> <<>>, warnings |-> {}]
Refusal(errors) == Failed(CHOOSE e \in errors : TRUE)

\* names are below 32
Key(kind, digits) == FoldLeft(LAMBDA n, digit : 32 * n + digit, kind, digits)
InKeyOrder(rates) ==
  FoldSet(LAMBDA r, seq : SelectSeq(seq, LAMBDA o : o.key < r.key) \o <<r>>
                            \o SelectSeq(seq, LAMBDA o : o.key >= r.key), <<>>, rates)
Meters(entries) == Ascending({d.code : d \in entries})

\* a warning is told apart by what it is about and by the names in it
WarningKinds ==
  <<"ec2_fallback", "rds_missing", "rds_conflict", "rds_storage", "rds_license",
    "mi_storage", "mi_memory", "vm_pair", "vm_commitment">>
Warning(about, names) == Key(8 + (CHOOSE k \in DOMAIN WarningKinds : WarningKinds[k] = about), names)
=============================================================================
