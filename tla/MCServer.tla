-------------------------------- MODULE MCServer -------------------------------
(* Small instances of the server. *)
EXTENDS Server

Line(bind, n, open, confirmed, socket) ==
    [bind |-> bind, port |-> n, noAuth |-> open, confirmed |-> confirmed, socket |-> socket]
Loopback == V4(<<127, 0, 0, 1>>, 0)

MCArgs == {
    Line(Loopback, 0, FALSE, FALSE, "none"), Line(Loopback, 8080, FALSE, FALSE, "valid"),
    Line(Loopback, 8080, TRUE, TRUE, "none"), Line(Loopback, 0, TRUE, FALSE, "none"),
    Line(V4(<<0, 0, 0, 0>>, 0), 0, FALSE, FALSE, "none"),
    Line(Loopback, 0, FALSE, FALSE, "invalid"), Line(V6("::1", 0), 8080, FALSE, FALSE, "none") }

Version(master, parses, major, minor) ==
    [master |-> master, parses |-> parses, major |-> major, minor |-> minor]
MCVersions     == { Version(TRUE, FALSE, 0, 0), Version(FALSE, FALSE, 0, 0),
                Version(FALSE, TRUE, 3, 4), Version(FALSE, TRUE, 3, 3),
                Version(FALSE, TRUE, 4, 0) }

MCBrowserHosts == { Loopback, Named("localhost", 0), V6("::1", 0) }

MCToolHosts == {
    Loopback, Named("localhost", 0), Named("elsewhere", 0), NoHost,
    V4(<<127, 1>>, 0), V4(<<127, 0, 1>>, 0), V4(<<2130706433>>, 0), V4(<<8, 8, 8, 8>>, 0),
    V4(<<126, 16777217>>, 0), V4(<<126, 255, 65537>>, 0), V4(<<127, 0, 0, 256>>, 0),
    V4(<<10, 127>>, 0), Host("v4", None, <<127, 1>>, TRUE, FALSE, 0),      \* 0177.1
    Host("v4", None, <<127, 0, 0, 1>>, TRUE, FALSE, 0),                   \* 0x7f.0.0.1
    Host("name", "localhost", <<>>, FALSE, TRUE, 0), V6("::1", 0), V6("::2", 0),
    V6("::ffff:127.0.0.1", 0) }
================================================================================
