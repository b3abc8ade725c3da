----------------------------- MODULE MCRetrieval -----------------------------
\* A small application at two revisions: total() in orders fails, called by
\* view() and by a test, mentioned by notes; audit is only on the default
\* branch; take() in stock fails far above level(), which it calls.  Seven
\* errors: rightly placed, misplaced, with a traceback only, in a vendored
\* file, nowhere, with nothing at all, and one whose message names what is
\* defined around level().
EXTENDS Retrieval

app(name) == <<"app", name>>
fn(name, class, start, end, calls, types) ==
    [name |-> name, class |-> class, qualname |-> IF class = None THEN name ELSE class \o "." \o name,
     start |-> start, end |-> end, calls |-> calls, types |-> types]
call(name, upper) == [name |-> name, upper |-> upper]
imp(local, module, level) == [local |-> local, module |-> module, original |-> local, level |-> level]
src(lines, functions, classes, imports, mentions) ==
    [lines |-> lines, parses |-> TRUE, functions |-> functions, classes |-> classes,
     imports |-> imports, mentions |-> mentions]

orders == src(12, <<fn("total", "Cart", 3, 8, <<call("price", FALSE), call("len", FALSE),
                        call("audit", FALSE), call("Item", TRUE)>>, <<"Tax">>)>>,
              <<[name |-> "Cart", start |-> 2, end |-> 8]>>,
              <<imp("price", <<"app", "pricing">>, 0), imp("Item", <<"models">>, 1)>>,
              {"total", "price", "audit", "Item", "Tax"})
pricing(name) == src(4, <<fn(name, None, 1, 4, <<>>, <<>>)>>, <<>>, <<>>, {name})
models == src(3, <<>>, <<[name |-> "Item", start |-> 1, end |-> 3]>>, <<>>, {"Item"})
views == src(5, <<fn("view", "Views", 2, 5, <<call("total", FALSE)>>, <<>>)>>,
             <<[name |-> "Views", start |-> 1, end |-> 5]>>, <<>>, {"Views", "view", "total"})
stock == src(20, <<fn("take", None, 2, 4, <<call("level", FALSE)>>, <<>>), fn("left", None, 11, 11, <<>>, <<>>),
                   fn("level", None, 12, 13, <<>>, <<>>), fn("rate", None, 14, 20, <<>>, <<>>)>>,
             <<>>, <<>>, {"take", "level", "left", "rate"})
notes == src(3, <<fn("note", None, 1, 2, <<>>, <<>>)>>, <<>>, <<>>, {"note", "total"})
test == src(6, <<fn("test_total", None, 1, 6, <<call("total", FALSE)>>, <<>>)>>, <<>>, <<>>,
            {"test_total", "total"})

MCAt == app("orders") :> orders @@ app("pricing") :> pricing("price") @@ app("models") :> models
        @@ app("views") :> views @@ app("notes") :> notes @@ app("stock") :> stock @@ <<"tests", "test_orders">> :> test
MCHead == app("audit") :> pricing("audit") @@ app("pricing") :> pricing("cost") @@ MCAt
MCPaths == <<app("audit"), app("models"), app("notes"), app("orders"), app("pricing"), app("stock"),
             app("views"), <<"tests", "test_orders">> >>
MCTestNames == "test_orders" :> "orders"
MCNoise == {"len"}

MCMappings == { << <<"/", "srv", "build">>, <<"app">> >> }
MCPrefixes == { <<"/", "app">>, <<"/", "usr", "src", "app">> }
MCByType == "KeyError" :> "key_index"
MCBySubstring == <<"data_db", "integration">>

frame(path, line, function, locals) ==
    [path |-> path, line |-> line, function |-> function, claimed |-> TRUE,
     locals |-> locals, nulls |-> locals]
said(names, frames, trace, type) ==
    [frames |-> frames, trace |-> trace, text |-> trace # <<>>, named |-> names,
     namesNull |-> FALSE, type |-> type, needles |-> {2}]
err(frames, trace, type) == said(<<"rate">>, frames, trace, type)
ev(error, route) ==
    [error |-> error, route |-> route, crumbs |-> <<[rank |-> 1, gap |-> 5], [rank |-> 2, gap |-> -1],
                                                    [rank |-> 1, gap |-> 5]>>, suspicious |-> FALSE]
caller == frame(<<"/", "app", "app", "views">>, 3, "view", <<>>)

MCEvents ==
    {ev(err(<<frame(<<"/", "app", "app", "orders">>, 5, "total", <<"item">>), caller,
              frame(<<"/", "usr", "lib", "python3.12", "json">>, 9, "loads", <<>>),
              frame(<<"/", "usr", "site-packages", "flask">>, 9, "run", <<>>)>>, <<>>, "KeyError"), None),
     ev(err(<<frame(<<"/", "app", "orders">>, 5, "total", <<"item">>), caller>>, <<>>, "KeyError"), None),
     ev(err(<<>>, <<caller, frame(<<"/", "srv", "build", "orders">>, None, "total", <<>>)>>, "ValueError"),
        "/orders"),
     ev(err(<<frame(<<"vendor", "flask", "views">>, 1, "run", <<>>)>>, <<>>, "DbError"), None),
     ev(err(<<frame(<<"/", "opt", "x", "orders">>, 12, None, <<>>)>>, <<>>, "KeyError"), "/orders"),
     ev(err(<<>>, <<>>, "DbError"), "/orders"),
     ev(said(<<"rate", "level", "left">>,
             <<frame(<<"/", "app", "app", "stock">>, 3, "take", <<>>), caller>>, <<>>, "KeyError"), None)}

reply(frm, plan, hypotheses, symbols, confidence) ==
    [frame |-> frm, plan |-> plan, hypotheses |-> hypotheses, family |-> "auth",
     symbols |-> symbols, confidence |-> confidence]
more == [mustFetch |-> <<app("notes"), <<"..", "etc">>, app("views")>>, symbols |-> <<"note", None>>,
         queries |-> << <<"cause", "auth">> >>, history |-> <<app("views")>>, tests |-> <<"view">>, signal |-> 3]
MCReplies ==
    {reply(None, None, <<>>, <<>>, None),
     reply([index |-> 0, confidence |-> 40], more,
           <<[prior |-> 70, frames |-> {0}], [prior |-> 40, frames |-> {0}], [prior |-> 20, frames |-> {7}],
             [prior |-> 30, frames |-> {}]>>, <<"note">>, 120),
     reply([index |-> 0, confidence |-> 99], more, <<[prior |-> 110, frames |-> {0}]>>, <<"view">>, -5)}

MCCommits == <<[age |-> 1, tokens |-> 1, files |-> {app("views")}],
               [age |-> 9, tokens |-> 4, files |-> {app("orders")}],
               [age |-> 100, tokens |-> 1, files |-> {app("orders"), app("views")}]>>
MCBlame == app("orders") :> MCCommits[3]
=============================================================================
