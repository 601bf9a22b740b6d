---------------------------- MODULE FileMessages ----------------------------
(***************************************************************************)
(* The six messages of file.proto as protoc translated them. Every message *)
(* lists its fields again in each generated function (parse table, Clear,  *)
(* _InternalSerialize, ByteSizeLong, MergeImpl, InternalSwap); the lists   *)
(* are kept apart here, as they are there, and the functions are written   *)
(* once for all messages. A string is a member of Strings; a serialized    *)
(* message is the sequence of its records, each a tag and a value.         *)
(***************************************************************************)
EXTENDS Naturals, Sequences, SequencesExt, FiniteSetsExt

CONSTANTS Strings, Empty, length,
          Utf8      \* the strings a field of type string may hold

ASSUME StringAssumption ==
    /\ Empty \in Utf8 /\ Utf8 \subseteq Strings
    /\ length \in [Strings -> Nat]
    /\ \A s \in Strings : length[s] = 0 <=> s = Empty
    /\ Strings \cap BOOLEAN = {}

-----------------------------------------------------------------------------
\* The fields with their accessors; a field starts, and is cleared, as this.
UploadChunkFields     == [filename |-> Empty, data |-> Empty]
UploadResponseFields  == [success |-> FALSE, message |-> Empty]
DownloadRequestFields == [filename |-> Empty]
DownloadChunkFields   == [data |-> Empty]
DeleteRequestFields   == [filename |-> Empty]
DeleteResponseFields  == [success |-> FALSE, message |-> Empty]

\* What WriteString, WriteBytes and WriteBool put before a field's value.
Text(f, number) == [field |-> f, tag |-> 8 * number + 2]
Bool(f, number) == [field |-> f, tag |-> 8 * number]

UploadChunk ==
    [parses     |-> [tag \in {10, 18} |-> IF tag = 10 THEN "filename" ELSE "data"],
     verifies   |-> {10},
     clears     |-> {"filename", "data"},
     serializes |-> <<Text("filename", 1), Text("data", 2)>>,
     sizes      |-> [filename |-> "string", data |-> "string"],
     merges     |-> {"filename", "data"},
     swaps      |-> {"filename", "data"}]

UploadResponse ==
    [parses     |-> [tag \in {8, 18} |-> IF tag = 8 THEN "success" ELSE "message"],
     verifies   |-> {18},
     clears     |-> {"message", "success"},
     serializes |-> <<Bool("success", 1), Text("message", 2)>>,
     sizes      |-> [message |-> "string", success |-> "bool"],
     merges     |-> {"message", "success"},
     swaps      |-> {"message", "success"}]

DownloadRequest ==
    [parses     |-> [tag \in {10} |-> "filename"],
     verifies   |-> {10},
     clears     |-> {"filename"},
     serializes |-> <<Text("filename", 1)>>,
     sizes      |-> [filename |-> "string"],
     merges     |-> {"filename"},
     swaps      |-> {"filename"}]

DownloadChunk ==
    [parses     |-> [tag \in {10} |-> "data"],
     verifies   |-> {},
     clears     |-> {"data"},
     serializes |-> <<Text("data", 1)>>,
     sizes      |-> [data |-> "string"],
     merges     |-> {"data"},
     swaps      |-> {"data"}]

DeleteRequest ==
    [parses     |-> [tag \in {10} |-> "filename"],
     verifies   |-> {10},
     clears     |-> {"filename"},
     serializes |-> <<Text("filename", 1)>>,
     sizes      |-> [filename |-> "string"],
     merges     |-> {"filename"},
     swaps      |-> {"filename"}]

DeleteResponse ==
    [parses     |-> [tag \in {8, 18} |-> IF tag = 8 THEN "success" ELSE "message"],
     verifies   |-> {18},
     clears     |-> {"message", "success"},
     serializes |-> <<Bool("success", 1), Text("message", 2)>>,
     sizes      |-> [message |-> "string", success |-> "bool"],
     merges     |-> {"message", "success"},
     swaps      |-> {"message", "success"}]

Fields ==
    [UploadChunk |-> UploadChunkFields, UploadResponse |-> UploadResponseFields,
     DownloadRequest |-> DownloadRequestFields, DownloadChunk |-> DownloadChunkFields,
     DeleteRequest |-> DeleteRequestFields, DeleteResponse |-> DeleteResponseFields]

Generated ==
    [UploadChunk |-> UploadChunk, UploadResponse |-> UploadResponse,
     DownloadRequest |-> DownloadRequest, DownloadChunk |-> DownloadChunk,
     DeleteRequest |-> DeleteRequest, DeleteResponse |-> DeleteResponse]

Types == DOMAIN Fields

-----------------------------------------------------------------------------
New(t) == [fields |-> Fields[t], unknown |-> << >>]

Has(t, m, f) == m.fields[f] # Fields[t][f]

\* Mutant: the metadata is not cleared with the fields.
ClearedFields(t, m) == [m EXCEPT !.fields = Fields[t]]

Cleared(t, m) ==
    [fields  |-> [f \in DOMAIN Fields[t] |->
                     IF f \in Generated[t].clears THEN Fields[t][f] ELSE m.fields[f]],
     unknown |-> << >>]

\* A field that has its default value is not merged.
Merged(t, to, from) ==
    [fields  |-> [f \in DOMAIN Fields[t] |->
                     IF f \in Generated[t].merges /\ Has(t, from, f)
                     THEN from.fields[f] ELSE to.fields[f]],
     unknown |-> to.unknown \o from.unknown]

Copied(t, to, from) == Merged(t, Cleared(t, to), from)

\* What the first of two messages holds after InternalSwap.
Swapped(t, m, other) ==
    [fields  |-> [f \in DOMAIN Fields[t] |->
                     IF f \in Generated[t].swaps THEN other.fields[f] ELSE m.fields[f]],
     unknown |-> other.unknown]

\* A field that has its default value is not sent.
Serialized(t, m) ==
    FoldLeft(LAMBDA w, e : IF Has(t, m, e.field)
                           THEN Append(w, [tag |-> e.tag, value |-> m.fields[e.field]]) ELSE w,
             << >>, Generated[t].serializes) \o m.unknown

\* Bytes of a number in base 128, and of a string with its length before it.
VarintSize[n \in Nat] == IF n < 128 THEN 1 ELSE 1 + VarintSize[n \div 128]
StringSize(s) == VarintSize[length[s]] + length[s]

RecordSize(r) == VarintSize[r.tag] + IF r.value \in BOOLEAN THEN 1 ELSE StringSize(r.value)
WireSize(wire) == FoldLeft(LAMBDA n, r : n + RecordSize(r), 0, wire)

FieldSize(t, m, f) ==
    IF Generated[t].sizes[f] = "bool" THEN 2 ELSE 1 + StringSize(m.fields[f])

\* Mutant: every field is counted, also one that is not sent.
SizeOfAll(t, m) ==
    FoldSet(LAMBDA f, n : n + FieldSize(t, m, f), WireSize(m.unknown),
            DOMAIN Generated[t].sizes)

ByteSizeLong(t, m) ==
    FoldSet(LAMBDA f, n : n + FieldSize(t, m, f), WireSize(m.unknown),
            {f \in DOMAIN Generated[t].sizes : Has(t, m, f)})

Refused(t, r) == r.tag \in Generated[t].verifies /\ r.value \notin Utf8

\* Mutant: unknown fields are skipped.
KnownOnly(t, m, r) ==
    IF r.tag \in DOMAIN Generated[t].parses
    THEN [m EXCEPT !.fields[Generated[t].parses[r.tag]] = r.value] ELSE m

\* A record with a tag the table does not have is kept as an unknown field.
ParseRecord(t, m, r) ==
    IF r.tag \in DOMAIN Generated[t].parses
    THEN [m EXCEPT !.fields[Generated[t].parses[r.tag]] = r.value]
    ELSE [m EXCEPT !.unknown = Append(@, r)]

\* The message that parsing leaves; it stops at a record it refuses.
ParsedOnto(t, m, wire) ==
    LET refused == {i \in DOMAIN wire : Refused(t, wire[i])}
        taken   == IF refused = {} THEN wire ELSE SubSeq(wire, 1, Min(refused) - 1)
    IN  FoldLeft(LAMBDA n, r : ParseRecord(t, n, r), m, taken)

Parses(t, wire) == \A i \in DOMAIN wire : ~Refused(t, wire[i])

\* ParseFrom... clears the message first.
Parsed(t, m, wire) == ParsedOnto(t, Cleared(t, m), wire)
=============================================================================
