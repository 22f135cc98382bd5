----------------------------- MODULE MCDataPath ------------------------------
(* Constants for model checking DataPath: texts of up to three characters, *)
(* a second of three nanoseconds and words of eight values, and payloads   *)
(* that the pool must enlarge for most items.                              *)
EXTENDS DataPath

CONSTANTS a, b

MCSampleData == {<<>>, <<a>>, <<b, Nul, a>>, <<a, b, a, b, a>>}
MCTimes      == -4..27
MCMaxSize    == [sample |-> 6, type |-> 8]

P(name, type, value) == [name |-> name, type |-> type, value |-> value]

T(metatype, properties) == [metatype |-> metatype, properties |-> properties]

MCStreamTypes ==
  { T(<<a>>, <<>>),
    T(<<>>, <<P(<<a>>, <<>>, <<b, b, b>>), P(<<>>, <<b>>, <<a>>)>>),
    T(<<a, b, a>>, <<P(<<b>>, <<a, b>>, <<>>)>>),
    T(<<b, Nul>>, <<P(<<a, b>>, <<a>>, <<Nul, a>>)>>),
    T(<<a>>, <<P(<<a, b>>, <<a>>, <<b>>), P(<<a, b, a>>, <<b, b, b>>, <<a>>)>>) }
=============================================================================
