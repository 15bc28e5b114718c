------------------------------ MODULE FileInfo ------------------------------
(***************************************************************************)
(* The metadata of an upload: how the `file-info` entries, the dedicated   *)
(* header inputs and `preserve-mtime` become the fileInfo of a plan, and   *)
(* which of them are refused (src/inputs.ts, src/commands/upload.ts).      *)
(* What is refused here is `invalid` in Upload, or ends the step before.   *)
(*                                                                         *)
(* A fileInfo is a JavaScript object: entries in the order they were       *)
(* added, [key, bytes] with the length of the value for the value.  All    *)
(* these functions are pure; a loop is a function of the number of its     *)
(* turns.  The key __proto__, which such an object does not keep, is left  *)
(* out.                                                                    *)
(***************************************************************************)
EXTENDS Integers, FiniteSets, SequencesExt

CONSTANTS
  Lower,        \* a function: the lower case of each key
  ReservedKeys, \* the keys in lower case that start with b2-
  LegalKeys,    \* the keys FILE_INFO_KEY_PATTERN matches
  KeyBytes,     \* a function: the UTF-8 length of each key
  MtimeKey,     \* src_last_modified_millis
  MtimeBytes,   \* the length of its value
  MaxKeyBytes, MaxEntries,        \* FILE_INFO_KEY_MAX_BYTES, FILE_INFO_MAX_ENTRIES
  MaxTotal, MaxTotalEncrypted     \* FILE_INFO_TOTAL_MAX_BYTES, _WITH_ENCRYPTION

InfoKeys == DOMAIN Lower

\* What is asked of the constants; MCUpload checks it of those it gives.
FileInfoAssumption ==
  /\ Lower \in [InfoKeys -> InfoKeys] /\ KeyBytes \in [InfoKeys -> Nat]
  /\ MtimeKey \in InfoKeys /\ Lower[MtimeKey] = MtimeKey /\ MtimeBytes \in Nat
  /\ MaxKeyBytes \in Nat /\ MaxEntries \in Nat
  /\ MaxTotal \in Nat /\ MaxTotalEncrypted \in Nat

\* A result is a fileInfo or an error.
Rejected == [ok |-> FALSE, info |-> <<>>]
Of(info) == [ok |-> TRUE, info |-> info]

HasOwn(info, key) == \E e \in ToSet(info) : e.key = key
Entry(key, n)     == [key |-> key, bytes |-> n]

AddFileInfo(r, key, n, allowReserved) ==
  IF \/ ~r.ok
     \/ ~allowReserved /\ Lower[key] \in ReservedKeys
     \/ HasOwn(r.info, Lower[key])
  THEN Rejected
  ELSE Of(Append(r.info, Entry(Lower[key], n)))

\* One turn of the loop.  Entries that are not of the form key=value have no `key`.
AddEntry(r, e, allowReserved) ==
  IF "key" \in DOMAIN e THEN AddFileInfo(r, e.key, e.bytes, allowReserved) ELSE Rejected

Added(r, entries, allowReserved) ==
  LET after[k \in 0 .. Len(entries)] ==
        IF k = 0 THEN r ELSE AddEntry(after[k - 1], entries[k], allowReserved)
  IN  after

AddAll(r, entries, allowReserved) == Added(r, entries, allowReserved)[Len(entries)]

ParseFileInfo(entries) == AddAll(Of(<<>>), entries, FALSE)

TotalMaxBytes(encrypted) == IF encrypted THEN MaxTotalEncrypted ELSE MaxTotal

Size(e) == KeyBytes[e.key] + e.bytes

\* The loop keeps the bytes counted so far, or -1 once it has thrown.
CountEntry(total, e, max) ==
  LET remaining == IF max > total THEN max - total ELSE 0
  IN IF total = -1 \/ e.key \notin LegalKeys \/ KeyBytes[e.key] > MaxKeyBytes \/ Size(e) > remaining
     THEN -1 ELSE total + Size(e)

Counted(info, max) ==
  LET total[k \in 0 .. Len(info)] ==
        IF k = 0 THEN 0 ELSE CountEntry(total[k - 1], info[k], max)
  IN  total

\* Its look at duplicate keys cannot fail: the keys are in lower case and differ already.
ValidateFileInfo(r, max) ==
  IF r.ok /\ Len(r.info) <= MaxEntries /\ Counted(r.info, max)[Len(r.info)] # -1
  THEN r ELSE Rejected

\* parseInputs: the entries, the header inputs that are set, the limits, then preserve-mtime.
ParseInputs(entries, headers, preserveMtime, encrypted) ==
  LET r == ValidateFileInfo(AddAll(ParseFileInfo(entries), headers, TRUE),
                            TotalMaxBytes(encrypted))
  IN IF preserveMtime /\ HasOwn(r.info, MtimeKey) THEN Rejected ELSE r

\* buildUploadFileInfo: a copy of the inputs' entries, and the modification time.
BuildUploadFileInfo(r, preserveMtime) ==
  IF preserveMtime THEN AddFileInfo(r, MtimeKey, MtimeBytes, TRUE) ELSE r

\* prepareUploadPlan checks the limits again, with the modification time in.
Plan(entries, headers, preserveMtime, encrypted) ==
  ValidateFileInfo(
    BuildUploadFileInfo(ParseInputs(entries, headers, preserveMtime, encrypted), preserveMtime),
    TotalMaxBytes(encrypted))

---------------------------------------------------------------------------
\* What a user asks for, and when it can be granted: all at once, without an order.
Asked(entries, headers, preserveMtime) ==
  {Entry(Lower[e.key], e.bytes) : e \in ToSet(entries) \cup ToSet(headers)}
    \cup (IF preserveMtime THEN {Entry(MtimeKey, MtimeBytes)} ELSE {})

\* Every byte of a set of entries.
BytesOf(asked) == UNION {{e} \X (1 .. Size(e)) : e \in asked}

Grantable(entries, headers, preserveMtime, encrypted) ==
  /\ \A e \in ToSet(entries) : "key" \in DOMAIN e /\ Lower[e.key] \notin ReservedKeys
  /\ LET asked == Asked(entries, headers, preserveMtime) IN
     /\ Cardinality({e.key : e \in asked}) =
          Len(entries) + Len(headers) + (IF preserveMtime THEN 1 ELSE 0)
     /\ Cardinality(asked) <= MaxEntries
     /\ \A e \in asked : e.key \in LegalKeys /\ KeyBytes[e.key] <= MaxKeyBytes
     /\ Cardinality(BytesOf(asked)) <= TotalMaxBytes(encrypted)

\* An upload carries exactly the metadata that was asked for, or is refused before it starts;
\* and it is refused only for a reason, although the limits are counted entry by entry, twice,
\* in whatever order the inputs come.
PlanIsExact(entries, headers, preserveMtime, encrypted) ==
  LET plan == Plan(entries, headers, preserveMtime, encrypted) IN
  /\ plan.ok <=> Grantable(entries, headers, preserveMtime, encrypted)
  /\ plan.ok => ToSet(plan.info) = Asked(entries, headers, preserveMtime)
=============================================================================
