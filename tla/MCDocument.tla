------------------------------- MODULE MCDocument -------------------------------
EXTENDS Document

(* Objects and arrays in each other, keys that are escaped, empty or look  *)
(* like an index, empty containers, primitives.                            *)
Obj(pairs) == InitializerList(pairs)
One == Number(1)

MCDocuments == <<
  Obj(<<<<<<"k">>, One>>, <<<<"l">>, Array(<<String(<<"m">>), Null, One>>)>>>>),
  Array(<<Number(0), One, Obj(<<<<<<"k">>, Null>>>>), Array(<<One>>)>>),
  Obj(<<<<<<"~", "1">>, Obj(<<<<<<"/">>, Boolean(TRUE)>>, <<<<>>, One>>>>)>>,
        <<<<"-">>, Array(<<One, One>>)>>>>),
  Obj(<<<<<<"l">>, Array(<<>>)>>, <<<<"k">>, Obj(<<>>)>>>>),
  Obj(<<<<<<"k">>, Obj(<<<<<<"0">>, One>>, <<<<"l">>, Null>>>>)>>>>),
  Number(2),
  Array([i \in 1 .. 11 |-> Number(i % 2)])
>>

Op(op, path) == InitializerList(Operation(op, path))
OpFrom(op, path, from) == InitializerList(Append(Operation(op, path), <<<<"from">>, String(from)>>))
OpValue(op, path, v) == InitializerList(Append(Operation(op, path), <<<<"value">>, v>>))

k == <<"/", "k">>
l == <<"/", "l">>

MCPatches == <<
  Array(<<OpValue("add", l \o <<"/", "-">>, Null)>>),
  Array(<<OpValue("add", l \o <<"/", "1">>, One)>>),
  Array(<<OpValue("add", l \o <<"/", "0", "1">>, One)>>),
  Array(<<OpValue("add", k \o <<"/", "l", "/", "1">>, One)>>),
  Array(<<OpValue("add", k \o <<"/", "~", "0", "1">>, Array(<<Null>>))>>),
  Array(<<Op("remove", k)>>),
  Array(<<Op("remove", <<"/", "1">>)>>),
  Array(<<Op("remove", k \o l)>>),
  Array(<<OpValue("test", k, One), OpValue("replace", l \o <<"/", "0">>, Obj(<<>>))>>),
  Array(<<OpFrom("move", k, l), OpFrom("copy", <<"/", "m">>, k)>>),
  Array(<<OpFrom("copy", k, l), Op("add", k)>>),
  Array(<<OpFrom("copy", <<"/", "~", "0", "1", "/", "0">>, <<"/", "~", "0", "1", "/", "0">>)>>),
  Array(<<OpFrom("copy", <<"/", "n">>, <<"/", "n">>)>>),
  Array(<<Op("host", k)>>),
  Array(<<Op("remove", <<"~", "u">>)>>),
  Null
>>

=============================================================================
