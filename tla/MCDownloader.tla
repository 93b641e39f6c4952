---------------------------- MODULE MCDownloader -----------------------------
(****************************************************************************)
(* A small instance of Downloader for TLC.                                  *)
(****************************************************************************)
EXTENDS Downloader

\* One attempt, or two with a redirect each, or three without.
MCPolicies == {[attempts |-> 1, maxRedirects |-> 0],
               [attempts |-> 2, maxRedirects |-> 1],
               [attempts |-> 3, maxRedirects |-> 0]}
=============================================================================
