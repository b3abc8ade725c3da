------------------------------ MODULE MCTriage ------------------------------
\* Five occurrences for two workers: "User 8821/9134/77 not found", which S2 makes two
\* issues of, the first two without a release and one of them late, and two errors that
\* the project's rules, those of docs/03-PIPELINE-SPEC.md:305-311, make one issue of.
EXTENDS Triage

own(line) == [inApp |-> TRUE, file |-> <<"checkout">>, function |-> <<"total">>, line |-> line]
lib == [inApp |-> FALSE, file |-> <<"json">>, function |-> <<"loads">>, line |-> 9]
user(digits, id) == << [kind |-> "word", size |-> 4, text |-> "user"],
                       [kind |-> "int", size |-> digits, text |-> id] >>
ev(type, message, frames, route, service, status) ==
    [type |-> <<type>>, message |-> message, frames |-> frames, route |-> route,
     service |-> service, status |-> status]
key(digits, id, frames) ==
    ev("KeyError", user(digits, id), frames, <<"api", "pay">>, <<"web">>, Missing)
occ(e, at, env, rel, rate) ==
    [event |-> e, at |-> at, environment |-> env, release |-> rel, rate |-> rate, users |-> 1000]

MCData ==
    [a |-> occ(key(4, "8821", <<lib, own(10)>>), 2, "production", Missing, 600),
     b |-> occ(key(4, "9134", <<own(12)>>), 1, "production", Missing, 500),
     c |-> occ(key(2, "77", <<own(12)>>), 3, "production", <<"r1">>, 100),
     d |-> occ(ev("HTTPError", user(8, "12345678"), <<lib>>, <<"api">>, <<"worker", "1">>, <<"502">>),
               4, "staging", <<"r2">>, 0),
     e |-> occ(ev("HTTPError", user(3, "777"), <<>>, <<"api">>, <<"worker", "2">>, <<"502">>),
               3, "production", Missing, 0)]
MCRules ==
    <<[match |-> [type |-> [star |-> FALSE, text |-> <<"HTTPError">>]],
       groupBy |-> << <<"type">>, <<"route">>, <<"status">> >>],
      [match |-> [service |-> [star |-> TRUE, text |-> <<"worker">>]],
       groupBy |-> << <<"type">>, <<"frames", 0>> >>]>>
Symmetric == Permutations(Workers)
MCCriticality == <<[route |-> <<"api">>, glob |-> TRUE, value |-> 20],
                   [route |-> <<"api", "pay">>, glob |-> FALSE, value |-> 100]>>

=============================================================================
