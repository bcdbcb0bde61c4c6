------------------------------ MODULE IfMatch ------------------------------
(***************************************************************************)
(* Optimistic concurrency over HTTP (fiberx/concurrency.go): a resource    *)
(* with a version, handlers that stamp the version's ETag on what they     *)
(* send and check the If-Match of a write, and clients that edit at the    *)
(* same time. The handlers and the store belong to the application and are *)
(* external: one handler reads the version, calls CheckIfMatch and stores  *)
(* on condition that the version is still the one it read; the other calls *)
(* IfMatchVersion and stores on condition of the version it names. A       *)
(* client may also write without a precondition, or with several.          *)
(***************************************************************************)
EXTENDS Integers, Sequences

CONSTANTS
  Editors,      \* clients that edit
  MaxVersions   \* bound: the version of the resource

ASSUME IfMatchAssumption == MaxVersions \in Nat

VARIABLES
  resource,  \* the version in the store
  editor     \* each client: its place, the ETag it holds, its request

editVars == <<resource, editor>>

\* A validator as the code reads it: a version, in its weak or its strong form,
\* the star, or something else.
Star == "*"
Garbage == "other"
Unread == -1
ETagForVersion(version) == <<"version", version>>
Validator(kind) == <<kind, Unread>>

NoEdit == [pc |-> "away", tag |-> Validator(Garbage), header |-> <<>>, seen |-> Unread]

EditInit == resource = 0 /\ editor = [e \in Editors |-> NoEdit]
-----------------------------------------------------------------------------
(* Plausible mistakes in this code, for checking that the properties see them *)

IfMatchVersionMut_Lenient(header) ==
  IF header = <<>> \/ header[1][1] # "version" THEN <<Unread, FALSE>>
  ELSE <<header[1][2], TRUE>>
-----------------------------------------------------------------------------
(* The helpers *)

\* CheckIfMatch: no header, a star or the current version among the validators.
CheckIfMatch(header, currentVersion) ==
  \/ header = <<>>
  \/ \E i \in DOMAIN header : header[i] \in {Validator(Star), ETagForVersion(currentVersion)}

\* IfMatchVersion: the version to store on condition of, and whether there is
\* such a condition. Only the first validator is read.
IfMatchVersion(header) ==
  IF header = <<>> \/ header[1] = Validator(Star) THEN <<0, FALSE>>
  ELSE IF header[1][1] = "version" THEN <<header[1][2], TRUE>>
  ELSE <<Unread, TRUE>>
-----------------------------------------------------------------------------
(* Clients, handlers and the store *)

At(e, s) == editor[e].pc = s

\* A GET: SetVersionETag stamps the version.
Reads(e) ==
  /\ At(e, "away")
  /\ editor' = [editor EXCEPT ![e] =
       [NoEdit EXCEPT !.pc = "editing", !.tag = ETagForVersion(resource)]]
  /\ UNCHANGED resource

\* A write leaves with a header made from the ETag the client holds, which may
\* be mangled on its way, or without one.
Submits(e) ==
  /\ At(e, "editing")
  /\ \E h \in {<<>>, <<editor[e].tag>>, <<Validator(Star)>>, <<Validator(Garbage)>>,
               <<Validator(Garbage), editor[e].tag>>, <<editor[e].tag, Validator(Garbage)>>} :
       editor' = [editor EXCEPT ![e].pc = "sent", ![e].header = h]
  /\ UNCHANGED resource

\* The first kind of handler reads the version and checks it, and stores later.
HandlerChecks(e) ==
  /\ At(e, "sent")
  /\ editor' = IF CheckIfMatch(editor[e].header, resource)
                THEN [editor EXCEPT ![e].pc = "checked", ![e].seen = resource]
                ELSE [editor EXCEPT ![e] = [NoEdit EXCEPT !.pc = "412"]]
  /\ UNCHANGED resource

\* The store takes the write on a condition.
Stores(e, cond) ==
  /\ resource < MaxVersions
  /\ resource' = IF cond THEN resource + 1 ELSE resource
  /\ editor' = [editor EXCEPT ![e] = [NoEdit EXCEPT !.pc = IF cond THEN "ok" ELSE "412"]]

HandlerStores(e) == At(e, "checked") /\ Stores(e, resource = editor[e].seen)

\* The second kind leaves the comparison to the store.
HandlerSwaps(e) ==
  /\ At(e, "sent")
  /\ LET want == IfMatchVersion(editor[e].header) IN
       Stores(e, want[2] => resource = want[1])

\* The client has its answer.
EditEnds(e) ==
  /\ editor[e].pc \in {"ok", "412"}
  /\ editor' = [editor EXCEPT ![e] = NoEdit]
  /\ UNCHANGED resource

EditNext ==
  \E e \in Editors :
    \/ Reads(e) \/ Submits(e) \/ HandlerChecks(e) \/ HandlerStores(e) \/ HandlerSwaps(e)
    \/ EditEnds(e)

EditSpec == EditInit /\ [][EditNext]_editVars
-----------------------------------------------------------------------------
(* Properties *)

\* Every variable has its type.
EditTypeOK ==
  /\ resource \in 0..MaxVersions
  /\ \A e \in Editors : editor[e].pc \in {"away", "editing", "sent", "checked", "ok", "412"}

\* A conditional write "gets 412 if the resource moved on since, instead of
\* silently clobbering a concurrent edit": no store replaces a version that the
\* client did not name in its precondition, a validator that cannot be read
\* included ("it can never accidentally match a real version").
NoClobber ==
  [][ \A e \in Editors :
        /\ editor'[e].pc = "ok" /\ editor[e].pc # "ok"
        /\ editor[e].header # <<>>
        /\ \A i \in DOMAIN editor[e].header : editor[e].header[i] # Validator(Star)
        => \E i \in DOMAIN editor[e].header :
             editor[e].header[i] = ETagForVersion(resource) ]_editVars
=============================================================================
