-------------------------------- MODULE Names --------------------------------
(***************************************************************************)
(* Name resolution and remapping (src/ros/name.go).  A name is its kind,   *)
(* read off its first character ("/" global, "~" private), and the words   *)
(* after it that strings.Split finds between the separators, empty ones    *)
(* included.  What a name resolves to is the sequence of the words below   *)
(* the root: the key of the node's tables and the name the master knows.   *)
(***************************************************************************)
EXTENDS Naturals, Sequences, SequencesExt

Relative(words) == [kind |-> "relative", words |-> words]
Private(words) == [kind |-> "private", words |-> words]
Global(words) == [kind |-> "global", words |-> words]

Name == [kind : {"relative", "private", "global"}, words : Seq(STRING)]

\* The words that count: what is kept of the first i words, one after another.
canonicalizeName(words) ==
    LET components[i \in 0..Len(words)] ==
          IF i = 0 THEN <<>>
          ELSE IF words[i] = "" THEN components[i - 1]
          ELSE Append(components[i - 1], words[i])
    IN components[Len(words)]

\* Namespace and own name of a node, from the name it was given.
qualifyNodeName(words) ==
    LET components == canonicalizeName(words) IN
      [namespace |-> Front(components), name |-> Last(components)]

\* The global name n stands for in a node.
resolve(node, n) ==
    CASE n.kind = "global"   -> canonicalizeName(n.words)
      [] n.kind = "private"  -> canonicalizeName(node.namespace \o <<node.name>> \o n.words)
      [] n.kind = "relative" -> canonicalizeName(node.namespace \o n.words)

\* Every resolvedMapping newNameResolver may build from a set of <<from, to>>
\* arguments: the map it ranges over has no order, so of two arguments whose
\* left sides resolve alike either may be stored last.
resolvedMappings(node, mapping) ==
    LET keys == {resolve(node, m[1]) : m \in mapping}
        targets(k) == {resolve(node, m[2]) : m \in {x \in mapping : resolve(node, x[1]) = k}} IN
      {f \in [keys -> UNION {targets(k) : k \in keys}] : \A k \in keys : f[k] \in targets(k)}

\* One look into the resolved mapping, never a second.
remap(node, resolved, n) ==
    LET key == resolve(node, n) IN
      IF key \in DOMAIN resolved THEN resolved[key] ELSE key
=============================================================================
