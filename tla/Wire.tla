-------------------------------- MODULE Wire --------------------------------
(***************************************************************************)
(* A call's messages on their way: the stub of file.grpc.pb chooses method *)
(* and message types, the service finds its handler, and both sides reuse  *)
(* their message objects. out and spare are the sender's, in the receiver's.*)
(***************************************************************************)
EXTENDS FileMessages, FiniteSets

CONSTANT MaxRecords     \* records on the wire, a bound of the model

ASSUME WireAssumption == MaxRecords \in Nat

VARIABLES
    rpc, reply,     \* the method and the direction
    msg, wire, ok,  \* ok: the last parse succeeded
    written         \* what was put on the wire, merged

vars == <<rpc, reply, msg, wire, ok, written>>

Objects == {"out", "spare", "in"}

-----------------------------------------------------------------------------
FileService_method_names == <<"Upload", "Download", "Delete">>

\* Index, kind and types with which the stub makes a call.
Stub ==
    [Upload   |-> [index |-> 1, kind |-> "CLIENT_STREAMING",
                   request |-> "UploadChunk", response |-> "UploadResponse"],
     Download |-> [index |-> 2, kind |-> "SERVER_STREAMING",
                   request |-> "DownloadRequest", response |-> "DownloadChunk"],
     Delete   |-> [index |-> 3, kind |-> "NORMAL_RPC",
                   request |-> "DeleteRequest", response |-> "DeleteResponse"]]

\* Service's constructor: methods in the order in which it adds them.
AddMethod ==
    <<[name |-> 1, kind |-> "CLIENT_STREAMING", calls |-> "Upload",
       request |-> "UploadChunk", response |-> "UploadResponse"],
      [name |-> 2, kind |-> "SERVER_STREAMING", calls |-> "Download",
       request |-> "DownloadRequest", response |-> "DownloadChunk"],
      [name |-> 3, kind |-> "NORMAL_RPC", calls |-> "Delete",
       request |-> "DeleteRequest", response |-> "DeleteResponse"]>>

\* The constructors of the three layers of CallbackService replace handlers.
MarkMethodCallback ==
    <<[kind |-> "CLIENT_STREAMING", calls |-> "Upload",
       request |-> "UploadChunk", response |-> "UploadResponse"],
      [kind |-> "SERVER_STREAMING", calls |-> "Download",
       request |-> "DownloadRequest", response |-> "DownloadChunk"],
      [kind |-> "NORMAL_RPC", calls |-> "Delete",
       request |-> "DeleteRequest", response |-> "DeleteResponse"]>>

\* The server looks the name of the call up among its methods.
Method(m) ==
    CHOOSE i \in DOMAIN AddMethod :
        FileService_method_names[AddMethod[i].name] = FileService_method_names[Stub[m].index]

Services == {"Service", "CallbackService"}

\* Mutant: the methods are marked in the order in which the layers are built.
HandlerByLayer(service, m) ==
    IF service = "CallbackService" THEN MarkMethodCallback[4 - Method(m)] ELSE AddMethod[Method(m)]

Handler(service, m) ==
    IF service = "CallbackService" THEN MarkMethodCallback[Method(m)] ELSE AddMethod[Method(m)]

\* The server with callbacks and a stub; the naive one has the same types.
TypeAt(o) ==
    LET server == Handler("CallbackService", rpc)
    IN  IF reply THEN IF o = "in" THEN Stub[rpc].response ELSE server.response
        ELSE IF o = "in" THEN server.request ELSE Stub[rpc].request

-----------------------------------------------------------------------------
Init ==
    /\ rpc \in DOMAIN Stub /\ reply \in BOOLEAN
    /\ msg = [o \in Objects |-> New(TypeAt(o))]
    /\ wire = << >> /\ ok = TRUE
    /\ written = New(TypeAt("out"))

Call == UNCHANGED <<rpc, reply>>

SetField(o, f, v) ==
    /\ v \in IF Fields[TypeAt(o)][f] \in BOOLEAN THEN BOOLEAN ELSE Strings
    /\ msg' = [msg EXCEPT ![o].fields[f] = v]
    /\ UNCHANGED <<wire, ok, written>>

Clear(o) ==
    /\ msg' = [msg EXCEPT ![o] = Cleared(TypeAt(o), @)]
    /\ UNCHANGED <<wire, ok, written>>

MergeFrom(o, p) ==
    /\ msg' = [msg EXCEPT ![o] = Merged(TypeAt(o), @, msg[p])]
    /\ UNCHANGED <<wire, ok, written>>

CopyFrom(o, p) ==
    /\ msg' = [msg EXCEPT ![o] = Copied(TypeAt(o), @, msg[p])]
    /\ UNCHANGED <<wire, ok, written>>

\* operator=(T&&): the objects are on no arena, so they trade places.
MoveFrom(o, p) ==
    /\ msg' = [msg EXCEPT ![o] = Swapped(TypeAt(o), msg[o], msg[p]),
                          ![p] = Swapped(TypeAt(p), msg[p], msg[o])]
    /\ UNCHANGED <<wire, ok, written>>

\* The sender serializes; several images may follow each other.
Write(o) ==
    LET image == Serialized(TypeAt(o), msg[o]) IN
    /\ Len(wire) + Len(image) <= MaxRecords
    /\ wire' = wire \o image
    /\ written' = Merged(TypeAt(o), written, msg[o])
    /\ UNCHANGED <<msg, ok>>

\* A sender built from a later file.proto adds a field 3.
WriteLater ==
    LET r == [tag |-> 26, value |-> Empty] IN
    /\ Len(wire) < MaxRecords
    /\ wire' = Append(wire, r)
    /\ written' = [written EXCEPT !.unknown = Append(@, r)]
    /\ UNCHANGED <<msg, ok>>

Read ==
    LET t == TypeAt("in") IN
    /\ msg' = [msg EXCEPT !["in"] = Parsed(t, @, wire)]
    /\ ok' = Parses(t, wire)
    /\ wire' = << >> /\ written' = New(TypeAt("out"))

Next ==
    /\ Call
    /\ \/ \E o \in {"out", "spare"}, v \in Strings \cup BOOLEAN :
             \E f \in DOMAIN Fields[TypeAt(o)] : SetField(o, f, v)
       \/ \E o \in Objects : Clear(o)
       \/ \E o, p \in {"out", "spare"} : o # p /\ (MergeFrom(o, p) \/ CopyFrom(o, p) \/ MoveFrom(o, p))
       \/ Write("out") \/ WriteLater \/ Read

Spec == Init /\ [][Next]_vars

-----------------------------------------------------------------------------
\* The fields that file.proto declares as bytes; the others are strings.
IsBytes(t, f) == t \in {"UploadChunk", "DownloadChunk"} /\ f = "data"

Sendable(t, m) ==
    \A f \in DOMAIN m.fields : IsBytes(t, f) \/ m.fields[f] \in Utf8 \cup BOOLEAN

BytesTags == {<<"UploadChunk", 18>>, <<"DownloadChunk", 10>>}

(***************************************************************************)
(* Whatever the receiver's object held before, and however the sender's    *)
(* came about (set, cleared, merged, copied, moved), a read leaves in it   *)
(* exactly what was written since the last one, with the fields it does    *)
(* not know; several images after each other read as their merge. It fails *)
(* only over a string field that is not UTF-8, which the sender does not   *)
(* refuse (file.pb.cc, _table_, Clear, _InternalSerialize, MergeImpl).     *)
(***************************************************************************)
ReadIsExact ==
    [][Read => /\ ok' => msg'["in"] = written
               /\ ok' \/ \E i \in DOMAIN wire :
                            /\ wire[i].value \notin Utf8 \cup BOOLEAN
                            /\ <<TypeAt("out"), wire[i].tag>> \notin BytesTags]_vars

(***************************************************************************)
(* The size computed before a message is serialized, with which the buffer *)
(* is allocated, is the size of what is then written, also where a length  *)
(* takes a second byte (file.pb.cc, ByteSizeLong and _InternalSerialize).  *)
(***************************************************************************)
SizeExact ==
    \A o \in Objects :
        ByteSizeLong(TypeAt(o), msg[o]) = WireSize(Serialized(TypeAt(o), msg[o]))

(***************************************************************************)
(* A peer that reads a message as another of the six types and passes it   *)
(* on loses nothing of it: what it does not know it keeps (GenericFallback *)
(* of the parse tables and the unknown fields of _InternalSerialize).      *)
(***************************************************************************)
RelayKeepsAll ==
    \A t \in Types :
        LET sent  == Serialized(TypeAt("out"), msg["out"])
            relay == Serialized(t, Parsed(t, New(t), sent))
        IN  Sendable(TypeAt("out"), msg["out"]) /\ Parses(t, sent) =>
                Parsed(TypeAt("out"), New(TypeAt("out")), relay) = msg["out"]

(***************************************************************************)
(* A call arrives at the handler of the method it was made with, whose     *)
(* kind of stream and types are those of the stub, in the synchronous      *)
(* service and in the one with callbacks (file.grpc.pb.cc, Stub and        *)
(* Service; file.grpc.pb.h, WithCallbackMethod_...).                       *)
(***************************************************************************)
CallsReachTheirHandler ==
    \A service \in Services :
        LET handler == Handler(service, rpc) IN
        /\ handler.calls = rpc
        /\ {handler.kind, AddMethod[Method(rpc)].kind} = {Stub[rpc].kind}
        /\ handler.request = Stub[rpc].request /\ handler.response = Stub[rpc].response
=============================================================================
