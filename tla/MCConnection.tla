---------------------------- MODULE MCConnection ----------------------------
(***************************************************************************)
(* An instance of Connection for TLC: two keys, hence two shards, and      *)
(* pipelines of up to three commands.                                      *)
(***************************************************************************)
EXTENDS Connection

TwoKeys == {"a", "b"}
OneKey  == {"a"}

Ask(kind, key) == [kind |-> kind, key |-> key]

\* Reads and writes first, then anything.
Mixed(keys) ==
  LET data == [kind : {"get", "set"}, key : keys]
      any  == data \cup [kind : {"ping", "bad", "garbage"}, key : {"none"}]
  IN {<<c, d>> : c \in data, d \in any}
       \cup {<<c, d, e>> : c \in data, d \in data, e \in any}
       \cup {<<Ask(k, "none"), c, d>> : k \in {"ping", "bad"}, c \in data, d \in data}

\* The first command is about key a: the keys are interchangeable.
Pipelines == {p \in Mixed(TwoKeys) : p[1].key # "b" /\ (p[1].key = "none" => p[2].key = "a")}
GetAndSet == {p \in Mixed(OneKey) : Len(p) = 2}

=============================================================================
