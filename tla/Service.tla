------------------------------ MODULE Service ------------------------------
(***************************************************************************)
(* A generated method: one call of client.Client with the value its node's *)
(* DDF format calls for, and for a Get the decoding of the answer.  The    *)
(* text of floats and of base64 is strconv's and encoding/base64's.        *)
(***************************************************************************)
EXTENDS Values

\* valueKind: the Go type of a leaf; what the DDF does not say is a string.
GoType(format) ==
  CASE format = "int"            -> "int64"
    [] format = "bool"           -> "bool"
    [] format = "float"          -> "float64"
    [] format \in {"b64", "bin"} -> "bytes"
    [] format = "null"           -> ""
    [] OTHER                     -> "string"

\* The value a setter passes on: its kind's constructor applied to its argument.
ValueExpr(format, v) ==
  CASE GoType(format) = "int64"  -> IntValue(v)
    [] GoType(format) = "bool"   -> BoolValue(v)
    [] GoType(format) = "string" -> [format |-> IF format \in {"xml", "date", "time"}
                                                THEN format ELSE "chr",
                                     data   |-> v]

\* The kind's accessor: the result, or nothing for an error.
Accessor(format, value) ==
  CASE GoType(format) = "int64"  -> DecodeInt(value)
    [] GoType(format) = "bool"   -> DecodeBool(value)
    [] GoType(format) = "string" -> <<Str(value)>>

\* A Get method, given what the transport answered: an error of the transport's is
\* passed on, and one of the accessor's is the method's own.
Getter(format, answer) ==
  IF answer.err # "nil" THEN [err |-> answer.err, result |-> <<>>]
  ELSE LET read == Accessor(format, answer.value)
       IN  [err |-> IF read = <<>> THEN "decode" ELSE "nil", result |-> read]

=============================================================================
