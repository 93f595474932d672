----------------------------- MODULE MCHttpPool -----------------------------
(***************************************************************************)
(* Instances of HttpPool for TLC.                                          *)
(***************************************************************************)
EXTENDS HttpPool

CONSTANTS a, b

Call(h, method, body, mode) ==
    [host |-> h, tls |-> TRUE, method |-> method, body |-> body, mode |-> mode]

\* HTTP/1.1 servers that frame their answers in every way.
Http1Load ==
    [calls |-> <<Call(a, "GET", 0, "follow"), Call(a, "HEAD", 0, "once"),
                 Call(a, "GET", 0, "follow"), Call(a, "POST", 1, "follow")>>,
     protocols |-> {"h1"}, framings |-> Framings, bodies |-> {},
     redirects |-> {}, faults |-> 2]

\* HTTP/2 servers with bodies around the window and the limit, both ways, and
\* credit that may come late.
Http2Load ==
    [calls |-> <<Call(a, "POST", 2, "follow"), Call(a, "POST", 1, "once"),
                 Call(a, "POST", 3, "follow"), Call(a, "HEAD", 0, "follow")>>,
     protocols |-> {"h2"}, framings |-> {"sized"}, bodies |-> {0, 1, 3, 4},
     redirects |-> {}, faults |-> 2]

\* Servers of both protocols that redirect between two hosts and to http.
RedirectLoad ==
    [calls |-> <<Call(a, "POST", 1, "follow"), Call(b, "GET", 0, "observe"),
                 Call(a, "GET", 0, "once")>>,
     protocols |-> {"h2", "h1"}, framings |-> {"sized", "close"}, bodies |-> {0},
     redirects |-> {[moved |-> TRUE, host |-> b, tls |-> TRUE],
                    [moved |-> FALSE, host |-> a, tls |-> FALSE]},
     faults |-> 1]

MCWorkloads == {Http1Load, Http2Load, RedirectLoad}

\* One download of the size that the limit allows, no faults.
DownloadLoad ==
    [calls |-> <<Call(a, "GET", 0, "follow")>>, protocols |-> {"h2"}, framings |-> {},
     bodies |-> {1, 3}, redirects |-> {}, faults |-> 0]

MCDownload == {DownloadLoad}
=============================================================================
