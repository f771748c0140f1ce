---------------------------- MODULE OutboundBuffer ----------------------------
(***************************************************************************)
(* The edge's offline buffer (comm/buffer.rs) as operators on a sequence   *)
(* of messages.  A message is [id, kind, device]; its kind decides its     *)
(* delivery class and its size.                                            *)
(***************************************************************************)
EXTENDS Integers, Sequences, FiniteSets, SequencesExt

CONSTANTS
  MaxMessages,    \* buffer_max_messages, 0 with buffer_enabled = false
  MaxBytes,       \* buffer_max_bytes
  Size            \* [Kinds -> Nat], bytes of a message's JSON

Kinds == {"register", "status", "alert", "removal"}

ASSUME BufferAssumption ==
  /\ MaxMessages \in Nat /\ MaxBytes \in Nat \ {0}
  /\ Size \in [Kinds -> Nat]

IsEphemeral(m) == m.kind = "register"
IsDroppable(m) == m.kind = "status"
IsPriority(m) == m.kind \in {"alert", "removal"}

Bytes(s) == FoldSeq(LAMBDA m, n : n + Size[m.kind], 0, s)
OverLimit(s) == Len(s) > MaxMessages \/ Bytes(s) > MaxBytes

\* The messages of s that are in T, in their order.
Only(s, T) ==
  LET kept[i \in 0 .. Len(s)] ==
        IF i = 0 THEN <<>>
        ELSE IF s[i] \in T THEN Append(kept[i - 1], s[i]) ELSE kept[i - 1]
  IN kept[Len(s)]
Storable(s) == Only(s, {m \in ToSet(s) : ~ IsEphemeral(m)})

\* The message a full buffer gives up: its oldest droppable one, or its oldest.
Victim(s) ==
  CHOOSE i \in DOMAIN s :
    \A j \in DOMAIN s : IF IsDroppable(s[j]) THEN IsDroppable(s[i]) /\ i <= j
                                            ELSE IsDroppable(s[i]) \/ i <= j

\* enforce: as few messages go as the limits require.
Enforced(s) ==
  LET relieved[t \in Seq(ToSet(s))] ==
        IF t # <<>> /\ OverLimit(t) THEN RemoveAt(t, Victim(t)) ELSE t
      left[n \in 0 .. Len(s)] == IF n = 0 THEN s ELSE relieved[left[n - 1]]
  IN left[Len(s)]

\* push_back, of one message, or of several priority ones in turn: the order in which
\* messages are given up makes enforcing once the same as enforcing after each.
PushedBack(s, new) == Enforced(s \o Storable(new))

\* Mutant: the unsent messages go behind the newer ones.
RequeuedBack(s, unsent) == Enforced(s \o Storable(unsent))

\* requeue_front keeps the order of the unsent messages.
RequeuedFront(s, unsent) == Enforced(Storable(unsent) \o s)
====
