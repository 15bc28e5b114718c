------------------------------ MODULE MCUpload ------------------------------
(* Four files, up to three workers, four B2 names: fewer workers than files, as many,
   and more names than needed all occur. *)
EXTENDS Upload, SequencesExt
MCKeys == {"k1", "k2", "k3", "k4"}

(* File-info of up to three entries in all, of keys that differ, differ only in case, are
   reserved, illegal, too long, or that of the modification time; a limit of two entries and
   the time, and byte limits that three of the entries meet, or miss by one. *)
LowerCase == "a" :> "a" @@ "A" :> "a" @@ "b" :> "b" @@ "b2-h" :> "b2-h" @@ "?" :> "?"
             @@ "long" :> "long" @@ "mt" :> "mt"
Info == INSTANCE FileInfo WITH
  Lower <- LowerCase,
  ReservedKeys <- {"b2-h"},
  LegalKeys <- DOMAIN LowerCase \ {"?"},
  KeyBytes <- [k \in DOMAIN LowerCase |-> IF k = "long" THEN 4 ELSE 1],
  MtimeKey <- "mt", MtimeBytes <- 2,
  MaxKeyBytes <- 3, MaxEntries <- 3, MaxTotal <- 10, MaxTotalEncrypted <- 7

InfoEntries == {Info!Entry(k, len) : k \in DOMAIN LowerCase, len \in {1, 3}} \cup {[malformed |-> TRUE]}

\* The limits of the metadata, over all these inputs.
ASSUME MetadataIsExact ==
  /\ Info!FileInfoAssumption
  /\ \A entries \in BoundedSeq(InfoEntries, 3), preserveMtime, encrypted \in BOOLEAN :
     \A headers \in {<<>>, <<Info!Entry("b2-h", 1)>>, <<Info!Entry("b2-h", 3)>>} :
       Info!PlanIsExact(entries, headers, preserveMtime, encrypted)
=============================================================================
