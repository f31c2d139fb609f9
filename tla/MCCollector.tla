---------------------------- MODULE MCCollector ------------------------------
(***************************************************************************)
(* Collector for TLC: a pod of a Deployment with two containers, one of a  *)
(* StatefulSet that is not scheduled yet, and a file of every format, with *)
(* the values the formats treat differently.                               *)
(***************************************************************************)
EXTENDS Collector

MCMeta == [api |-> [name |-> <<"pay", "api", "rs1", "x">>, owner |-> <<"pay", "api", "rs1">>,
                    labels |-> [none |-> Absent]],
           db  |-> [name |-> <<"db", "0">>, owner |-> Absent, labels |-> [app |-> <<"store">>]]]
MCContainersOf == [api |-> <<"main", "sidecar">>, db |-> << >>]
MCMaxRestarts == [main |-> 1, sidecar |-> 0]
MCNamespace == <<"tenant", "a">>
MCPromArgs == [signal_name |-> "service_latency_p95", service |-> <<"svc">>,
               namespace |-> <<"ns">>, deployment |-> <<"dep">>]

It(fields) == [fields |-> fields, labels |-> NoItem.labels]
Dict(fields, parts) == [kind |-> "dict", fields |-> fields, labels |-> NoItem.labels, parts |-> parts]
NoParts == [none |-> << >>]
PointOf(ts, signal, value) ==
    It([ts |-> ts, service |-> <<"svc">>, signal_name |-> signal, value |-> value])

Metrics ==
    {Dict([status |-> <<"success">>],
          [result |-> <<[fields |-> [value |-> Number(3)], words |-> words,
                         labels |-> [app |-> <<"shop">>, pod |-> <<"shop", "rs", "y">>]]>>]) :
        words \in {{"http", "latency"}, {"http", "error"}, {"container", "restart"}, {"queue"}}}
    \cup {Dict([status |-> <<"success">>, signal_name |-> <<"minor_blip">>, service |-> <<"svc">>],
               [result |-> <<[fields |-> [value |-> Number(3)], words |-> {"queue"},
                              labels |-> [signal_name |-> <<"queue_backlog">>]]>>]),
          Dict([status |-> <<"success">>, namespace |-> <<"ns">>, deployment |-> <<"dep">>],
               [result |-> <<[fields |-> [value |-> Number(3)], words |-> {"latency"},
                              labels |-> [signal_name |-> <<"unknown_signal">>]]>>]),
          Dict([status |-> <<"success">>], [result |-> << >>]),
          Dict([status |-> <<"error">>], NoParts)}

Events ==
    {Dict(NoItem.fields,
          [items |-> <<It([reason |-> reason, message |-> message, eventTime |-> ts,
                           namespace |-> <<"ns">>, name |-> <<"shop", "rs", "y">>])>>]) :
        reason \in {<<"OOMKilling">>, <<"OOMKilled">>, <<"BackOff">>, <<"Scheduled">>},
        message \in {<<"OOMKilled">>, Absent}, ts \in {<<"iso">>, <<"text">>}}

Logs ==
    {ListOf(<<It([message |-> message, timestamp |-> ts, level |-> <<"ERROR">>]),
              It([message |-> <<"secret">>])>>) :
        message \in {<<"text">>, <<"object">>, Absent},
        ts \in {<<"ms">>, <<"us">>, <<"text">>}}
    \cup {Dict([message |-> <<"secret">>, pod |-> <<"shop", "rs", "y">>], NoParts),
          ListOf(<<It([message |-> Absent, value |-> Absent])>>),
          Dict([log_group |-> <<"g">>, service |-> <<"shop">>],
               [logEvents |-> <<It([message |-> <<"text">>, timestamp |-> <<"ms">>])>>])}

Span(ts, message) ==
    It([traceId |-> <<"t">>, spanId |-> <<"s">>, startTimeUnixNano |-> ts, status |-> <<"2">>,
        status_message |-> message])
GoodSpan == It([traceId |-> <<"t">>, spanId |-> <<"s">>, status |-> <<"1">>])

Spans ==
    {ListOf(<<GoodSpan, Span(ts, message)>>) :
        ts \in {<<"ns">>, <<"text">>}, message \in {<<"text">>, Absent}}
    \cup {Dict(NoItem.fields,
               [resourceSpans |-> <<[spans |-> <<Span(<<"ns">>, <<"text">>)>>,
                                     attributes |-> [service |-> <<"shop">>]]>>])}

Windows ==
    {Scenario(<<PointOf(<<"iso">>, signal, value)>>) :
        signal \in {"container_memory_pct", "minor_blip", "pod_phase", "service_error_rate"},
        value \in {Number(3), <<"secret">>, <<"object">>, Absent}}
    \cup {ListOf(<<PointOf(<<"ms">>, "pod_oom_event", <<"text">>)>>)}

MCRawFiles == Metrics \cup Events \cup Logs \cup Spans \cup Windows
=============================================================================
