----------------------------- MODULE MCConsole -----------------------------
EXTENDS Console

CONSTANTS t1, t2, t3, p1, home

Gestures == {"open", "rename", "archive", "unarchive", "delete", "adopt", "expand", "dialog",
             "remove", "refresh", "type", "send", "abort", "model", "menu",
             "close", "timeout", "elsewhere"}
Scene(booted, at, there, projects, gestures) ==
    [booted |-> booted, route |-> at, threads |-> there, added |-> projects,
     budget |-> [g \in Gestures |-> Len(SelectSeq(gestures, LAMBDA x : x = g))]]
Booting(at, there, projects, gestures) == Scene(FALSE, at, there, projects, gestures)
Settled(at, there, projects, gestures) == Scene(TRUE, at, there, projects, gestures)

MCThreads == {t1, t2, t3}
MCProjects == {p1}
MCWords == {"words"}
MCPrompt == {"projects", "sessions", "browse", "models"}
MCScenes == {
    Booting(home, {t1, t2}, {}, <<"open", "elsewhere", "close">>),
    Booting(t1, {t1}, {}, <<"elsewhere", "elsewhere", "timeout">>),
    Settled(t1, {t1}, {}, <<"elsewhere", "elsewhere", "close">>),
    Settled(t1, {t1, t2}, {}, <<"open", "open", "elsewhere", "timeout">>),
    Booting(home, {t1}, {}, <<"type", "send", "open", "close">>),
    Settled(home, {t1}, {}, <<"type", "send", "send", "open", "timeout">>),
    Settled(t1, {t1, t2}, {}, <<"type", "type", "send", "send", "open", "elsewhere">>),
    Settled(home, {t1, t2}, {}, <<"rename", "rename", "archive", "close">>),
    Settled(home, {t1}, {}, <<"archive", "unarchive", "elsewhere">>),
    Settled(home, {t1, t2}, {}, <<"refresh", "rename", "rename", "elsewhere">>),
    Settled(home, {t1, t2}, {}, <<"refresh", "delete", "close">>),
    Settled(home, {t1}, {}, <<"refresh", "refresh", "elsewhere", "close">>),
    Settled(t1, {t1, t2}, {}, <<"delete", "delete", "close">>),
    Settled(home, {t1}, {p1}, <<"expand", "adopt", "adopt", "close">>),
    Settled(home, {t1}, {p1}, <<"expand", "adopt", "delete", "open">>),
    Settled(home, {t1}, {p1}, <<"expand", "expand", "remove", "dialog", "dialog", "timeout">>),
    Settled(home, {t1}, {}, <<"dialog", "dialog", "dialog", "close">>),
    Settled(t1, {t1, t2}, {}, <<"model", "model", "open", "close">>),
    Settled(t1, {t1}, {}, <<"type", "menu", "menu", "send", "abort", "open">>)}
=============================================================================
