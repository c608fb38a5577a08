---------------------------- MODULE CodeContext ----------------------------
(***************************************************************************)
(* The source lines that read_file_context shows: around the symbols that  *)
(* enclose the target lines, or a plain range of lines, under a limit.     *)
(* The syntax tree is external: its definitions are ranges of lines.       *)
(***************************************************************************)
EXTENDS Integers, Sequences, FiniteSets

CONSTANTS FileLines,   \* lines of the file
          Definitions, \* possible sets of definitions: <<first line, last line, name>>
          Limits,      \* values of MaxLines
          MaxSymbols

ASSUME ContextAssumption ==
  /\ FileLines \in Nat /\ Limits \subseteq Nat \ {0} /\ MaxSymbols \in Nat \ {0}
  /\ \A defs \in Definitions : IsFiniteSet(defs) /\ \A d \in defs : d[1] \in 1..FileLines /\ d[2] \in d[1]..FileLines

VARIABLES
  targets,      \* the target lines, which may lie beyond the end of the file
  symbols,      \* the symbols to show, in order
  maxLines,
  remainingLines,
  snippets,     \* <<first, last>> of each snippet written
  cut,          \* the result says that it is truncated
  built         \* the content is complete

contextVars == <<targets, symbols, maxLines, remainingLines, snippets, cut, built>>

MinLine(S) == CHOOSE n \in S : \A m \in S : n <= m
MaxLine(S) == CHOOSE n \in S : \A m \in S : m <= n
Smaller(a, b) == IF a < b THEN a ELSE b
Larger(a, b) == IF a < b THEN b ELSE a
Size(d) == d[2] - d[1] + 1
Holds(d, n) == d[1] <= n /\ n <= d[2]
Inside(d, e) == e[1] <= d[1] /\ d[2] <= e[2]
-----------------------------------------------------------------------------
\* findSymbols: what encloses a target that is not blank (fewer definitions stand for the
\* ones that only a blank target is in), without what contains another symbol found:
\* of two symbols on the same lines, neither.
Enclosing(defs, T) == {d \in defs : \E n \in T : Holds(d, n)}
Innermost(defs) == {d \in defs : \A e \in defs \ {d} : ~Inside(e, d)}
Before(d, e) == d[1] < e[1]
FindSymbols(defs, T) ==
  LET found == Innermost(Enclosing(defs, T))
  IN [k \in 1..Smaller(Cardinality(found), MaxSymbols) |->
        CHOOSE d \in found : Cardinality({e \in found : Before(e, d)}) = k - 1]

\* fallbackContent: from the first target to the last, as far as the limit goes.
Fallback(T, limit) ==
  LET last == Smaller(MaxLine(T), FileLines)
      first == MinLine(T)
  IN <<first, IF last - first + 1 > limit THEN first + limit - 1 ELSE last>>

\* Mutant: the window does not move back from the symbol's end.
WindowUnmoved(d, focus, n) ==
  LET start == Larger(d[1], focus - (n \div 2))
  IN <<start, start + n - 1>>

\* The part of a symbol that n lines have room for.
Window(d, focus, n) ==
  LET start == Larger(d[1], focus - (n \div 2))
  IN IF start + n - 1 > d[2] THEN <<Larger(d[1], d[2] - n + 1), d[2]>> ELSE <<start, start + n - 1>>

\* firstTargetInRange
Focus(d) == MinLine({n \in targets : Holds(d, n)})
-----------------------------------------------------------------------------
\* The content of a file in a language without a parser, or without a symbol at the targets.
ShowRange ==
  /\ ~built /\ symbols = <<>> /\ built' = TRUE
  /\ IF targets = {} \/ FileLines = 0 \/ MinLine(targets) > FileLines
     THEN UNCHANGED <<remainingLines, snippets, cut>>
     ELSE LET range == Fallback(targets, maxLines)
          IN /\ snippets' = <<range>>
             /\ cut' = (Smaller(MaxLine(targets), FileLines) > range[2])
             /\ remainingLines' = remainingLines - Size(range)
  /\ UNCHANGED <<targets, symbols, maxLines>>

\* One pass of buildSymbolContent's loop.
ShowSymbol ==
  /\ ~built /\ symbols # <<>> /\ Len(snippets) < Len(symbols)
  /\ LET d == symbols[Len(snippets) + 1]
         shown == IF Size(d) > remainingLines THEN Window(d, Focus(d), remainingLines) ELSE <<d[1], d[2]>>
     IN IF remainingLines <= 2
        THEN cut' = TRUE /\ built' = TRUE /\ UNCHANGED <<remainingLines, snippets>>
        ELSE /\ snippets' = Append(snippets, shown)
             /\ cut' = (cut \/ Size(d) > remainingLines)
             /\ remainingLines' = remainingLines - Size(shown)
             /\ built' = (Len(snippets) + 1 = Len(symbols))
  /\ UNCHANGED <<targets, symbols, maxLines>>
-----------------------------------------------------------------------------
ContextInit ==
  /\ targets \in SUBSET (1..(FileLines + 1)) /\ maxLines \in Limits
  /\ \E defs \in Definitions : symbols = FindSymbols(defs, targets)
  /\ remainingLines = maxLines /\ snippets = <<>> /\ cut = FALSE /\ built = FALSE

ContextNext == ShowRange \/ ShowSymbol
ContextSpec == ContextInit /\ [][ContextNext]_contextVars
-----------------------------------------------------------------------------
Shown == UNION {s[1]..s[2] : s \in {snippets[i] : i \in DOMAIN snippets}}

Apart == \A i, j \in DOMAIN symbols : i < j => symbols[i][2] < symbols[j][1]

\* Every snippet lies in the file and in its symbol, has that symbol's first target
\* line in it; together they keep to the limit, of which symbols that share no line use
\* what they show.  And a result that is not marked as truncated shows each target line
\* of each of its symbols.
ContextShowsTargets ==
  /\ Shown \subseteq 1..FileLines
  /\ remainingLines >= 0 /\ Cardinality(Shown) <= maxLines - remainingLines
  /\ Apart => Cardinality(Shown) = maxLines - remainingLines
  /\ \A i \in DOMAIN snippets :
       IF symbols = <<>> THEN MinLine(targets) \in snippets[i][1]..snippets[i][2]
       ELSE Inside(snippets[i], symbols[i]) /\ Focus(symbols[i]) \in snippets[i][1]..snippets[i][2]
  /\ built /\ ~cut =>
       IF symbols = <<>> THEN targets \cap 1..FileLines \subseteq Shown
       ELSE \A i \in DOMAIN symbols : {n \in targets : Holds(symbols[i], n)} \subseteq Shown
=============================================================================
