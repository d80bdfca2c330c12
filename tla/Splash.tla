---- MODULE Splash ----
(***************************************************************************)
(* How a user gets through the portal: the answers of the webserver        *)
(* (authenticated, preauthenticated in http_microhttpd.c) to a browser with *)
(* several windows, which follows redirects and submits the splash page.   *)
(*                                                                         *)
(* Requests are served one at a time by one thread, so a request is a      *)
(* step; what goes on inside of it and between the threads is in Portal.   *)
(* The url a user wants is the one thing carried through all the pages.    *)
(***************************************************************************)
EXTENDS WebText

CONSTANTS
    Window,        \* windows of the user's browser
    None,          \* no value
    Origins,       \* what the user may want to see, see Origin
    BinAuth,       \* config->binauth is set, and may reject
    RedirectURL,   \* config->redirectURL, the empty text for none
    QueryMaxLen,   \* QUERYMAXLEN
    MaxResets,     \* bound on the resets of the client
    MaxPath, MaxText, MaxPieces   \* bounds on the inputs of the text functions

ASSUME SplashAssumption ==
    /\ BinAuth \in BOOLEAN
    /\ {QueryMaxLen, MaxResets, MaxPath, MaxText, MaxPieces} \subseteq Nat

VARIABLES
    client,   \* the entry of the user: state and token, and how often it was reset (history)
    window    \* window -> what it shows, see ShownBy

vars == <<client, window>>

(* A url at a foreign host: the path and the arguments of its query, as      *)
(* MHD gives them to the callbacks, decoded.  A key may come without a value. *)
Argument == [key : Seq(Char), value : Seq(Char) \cup {None}]
Origin == {o \in [path : Seq(Char), args : Seq(Argument)] : IsPrefix(<<"/">>, o.path)}

ASSUME TextAssumption ==
    Origins \subseteq Origin /\ RedirectURL \in Seq(Char) /\ None \notin Seq(Char)

Nothing == [pc |-> "blank", origin |-> None, redir |-> None, tok |-> 0, made |-> 0, linked |-> FALSE]

(* pc      what the window shows or is told to do                            *)
(* redir   the value of "redir" in the url it is sent to or in the page      *)
(* tok, made   token of the page, and the resets when it was made (history)  *)
(* linked  the user took $authtarget at some point (history)                 *)
Shows(w, pc, redir) == window' = [window EXCEPT ![w].pc = pc, ![w].redir = redir]

Init ==
    /\ client = [state |-> "preauthenticated", token |-> 0, resets |-> 0]
    /\ window = [w \in Window |-> Nothing]

Authenticated == client.state = "authenticated"

---------------------------------------------------------------------------
(* Answers *)

(* The query as get_query_callback puts it together again. *)
Arg(arg, first) ==
    (IF first THEN <<"?">> ELSE <<"&">>) \o arg.key
    \o (IF arg.value = None THEN <<>> ELSE <<"=">> \o arg.value)

get_query(args) ==
    LET text == FlattenSeq([i \in DOMAIN args |-> Arg(args[i], i = 1)])
    IN [text |-> text, error |-> Len(text) >= QueryMaxLen]

encode_and_redirect_to_splashpage_IgnoresFailure(w, originurl) ==
    Shows(w, "redirect", uh_urlencode(QueryMaxLen, originurl).text)

(* Either an error page or a redirect to the splash page.  uh_urlencode does *)
(* not terminate its text: when it fills the whole buffer, what lies behind  *)
(* the buffer is printed as well.                                            *)
encode_and_redirect_to_splashpage(w, originurl) ==
    LET encoded == uh_urlencode(QueryMaxLen, originurl)
        Behind  == IF Len(encoded.text) = QueryMaxLen THEN {<<>>, <<"a">>} ELSE {<<>>}
    IN \/ encoded.rc = -1 /\ Shows(w, "error", None)
       \/ encoded.rc = 0 /\ \E t \in Behind : Shows(w, "redirect", encoded.text \o t)

redirect_to_splashpage(w, o) ==
    LET query == get_query(o.args)
        path  == buffer_path_simplify(o.path)
    IN IF query.error THEN Shows(w, "error", None)
       ELSE encode_and_redirect_to_splashpage(w, <<"H">> \o path \o query.text)

(* A file of webroot as it is; the file may not be there. *)
serve_file(w) == Shows(w, "file", None) \/ Shows(w, "error", None)

(* MHD decodes the value of "redir" for replace_variables, which also gives  *)
(* the page the token; the file may not be there.                            *)
show_templated_page(w, page) ==
    LET redir == window[w].redir IN
    \/ window' = [window EXCEPT ![w].pc = page,
                                ![w].redir = IF redir = None THEN None
                                             ELSE uh_urldecode(Len(redir), redir).text,
                                ![w].tok = client.token, ![w].made = client.resets]
    \/ Shows(w, "error", None)

---------------------------------------------------------------------------
(* The browser asks for a url of a foreign host, and the firewall sends the  *)
(* request to the portal.                                                    *)
Ask(w, o) ==
    /\ window[w].pc = "blank"
    /\ window' = [window EXCEPT ![w].pc = "ask", ![w].origin = o]
    /\ UNCHANGED client

RequestForeign(w) ==
    /\ window[w].pc = "ask"
    /\ \/ Authenticated /\ Shows(w, "refresh", None)   \* send_refresh
       \/ ~Authenticated /\ redirect_to_splashpage(w, window[w].origin)
    /\ UNCHANGED client

(* The page asks again after a second. *)
Refresh(w) ==
    /\ window[w].pc = "refresh"
    /\ Shows(w, "ask", None)
    /\ UNCHANGED client

(* The user opens the portal itself. *)
Visit(w) ==
    /\ window[w].pc = "blank"
    /\ Shows(w, "redirect", None)
    /\ UNCHANGED client

(* is_splashpage: the template is filled for a preauthenticated client; an   *)
(* authenticated one is served the file as it is.                            *)
OpenSplashpage(w) ==
    /\ window[w].pc = "redirect"
    /\ \/ Authenticated /\ serve_file(w)
       \/ ~Authenticated /\ show_templated_page(w, "splash")
    /\ UNCHANGED client

(* The value of "redir" that arrives from the form on the page, whose        *)
(* $redir is the name without its "$" when there is no value, and from the   *)
(* link $authtarget, into which the value is printed as it is: "(null)" for  *)
(* none, and a value that ends at its first "&".                             *)
RedirOfForm(redir) == IF redir = None THEN <<"redir">> ELSE redir
RedirOfLink(redir) ==
    IF redir = None THEN <<"(null)">>
    ELSE LET ends == {i \in DOMAIN redir : redir[i] = "&"}
             text == IF ends = {} THEN redir ELSE SubSeq(redir, 1, Min(ends) - 1)
             decoded == uh_urldecode(Len(text), text)
         IN IF decoded.rc = 0 THEN decoded.text ELSE text

(* authdir, with the token of the page *)
try_to_authenticate(w) == window[w].tok = client.token

RequestAuthdir(w, redir) ==
    LET redirect_url == IF RedirectURL # <<>> THEN RedirectURL ELSE redir IN
    \/ /\ Authenticated
       /\ show_templated_page(w, "status")
       /\ UNCHANGED client
    \/ /\ ~Authenticated
       /\ ~try_to_authenticate(w) \/ BinAuth   \* a wrong token, or do_binauth rejects
       /\ encode_and_redirect_to_splashpage(w, redirect_url)
       /\ UNCHANGED client
    \/ /\ ~Authenticated /\ try_to_authenticate(w)
       /\ client' = [client EXCEPT !.state = "authenticated"]
       /\ Shows(w, "arrived", redirect_url)

SubmitForm(w) ==
    /\ window[w].pc = "splash"
    /\ RequestAuthdir(w, RedirOfForm(window[w].redir))

FollowLink(w) ==
    /\ window[w].pc = "splash" /\ ~window[w].linked
    /\ window' = [window EXCEPT ![w].pc = "link", ![w].linked = TRUE,
                                ![w].redir = RedirOfLink(window[w].redir)]
    /\ UNCHANGED client

RequestAuthtarget(w) ==
    /\ window[w].pc = "link"
    /\ RequestAuthdir(w, window[w].redir)

client_reset_KeepsToken(c) == [c EXCEPT !.resets = @ + 1]

(* A new token, taken to differ from all earlier ones. *)
client_reset(c) == [c EXCEPT !.resets = @ + 1, !.token = c.resets + 1]

(* denydir: auth_client_deauth and a redirect to the portal. *)
RequestDenydir(w) ==
    /\ window[w].pc = "status" /\ client.resets < MaxResets
    /\ \/ /\ Authenticated
          /\ client' = [client_reset(client) EXCEPT !.state = "preauthenticated"]
          /\ window' = [window EXCEPT ![w] = [Nothing EXCEPT !.pc = "redirect"]]
       \/ ~Authenticated /\ Shows(w, "error", None) /\ UNCHANGED client

(* Timeouts and the administrator change the state of the client; an entry   *)
(* may also go, and the next request makes a new one.                        *)
SessionEnds ==
    /\ client.resets < MaxResets
    /\ client' = [client_reset(client) EXCEPT !.state = "preauthenticated"]
    /\ UNCHANGED window

NdsctlAuth ==
    /\ ~Authenticated
    /\ client' = [client EXCEPT !.state = "authenticated"]
    /\ UNCHANGED window

(* The user begins again in a window. *)
Close(w) ==
    /\ window[w].pc \in {"arrived", "status", "file", "error"}
    /\ window' = [window EXCEPT ![w] = Nothing]
    /\ UNCHANGED client

Next ==
    \/ \E w \in Window :
          \/ \E o \in Origins : Ask(w, o)
          \/ RequestForeign(w) \/ Refresh(w) \/ Visit(w) \/ OpenSplashpage(w)
          \/ SubmitForm(w) \/ FollowLink(w) \/ RequestAuthtarget(w) \/ RequestDenydir(w)
          \/ Close(w)
    \/ SessionEnds
    \/ NdsctlAuth

SplashSpec == Init /\ [][Next]_vars
---------------------------------------------------------------------------
(* The url as the browser wrote it, its path resolved, and the ones that are *)
(* rebuilt as they were: those that need no encoding, and whose encoding in  *)
(* "redir" does not just fill the buffer.                                    *)
Coded(t) == IF t = None THEN None ELSE uh_urlencode(3 * Len(t), t).text
Wanted(o) ==
    <<"H">> \o Resolved(o.path) \o
    FlattenSeq([i \in DOMAIN o.args |->
                  Arg([key |-> Coded(o.args[i].key), value |-> Coded(o.args[i].value)], i = 1)])

NeedsNoCode(t) == t # None => \A k \in DOMAIN t : t[k] \notin DOMAIN Hex
Rebuilt(o) ==
    /\ Len(Coded(Wanted(o))) # QueryMaxLen
    /\ \A k \in DOMAIN o.path : o.path[k] \notin DOMAIN Hex \ {"/"}
    /\ \A i \in DOMAIN o.args : NeedsNoCode(o.args[i].key) /\ NeedsNoCode(o.args[i].value)

(* A user who asked for a page and submitted the form of the splash page is  *)
(* sent to that page, through any number of rejected tokens and scripts, and *)
(* never to a part of its url (redirect_to_splashpage to authenticate_client).*)
(* Who is authenticated through another window meanwhile gets a status page. *)
OriginKept ==
    \A w \in Window :
       (/\ window[w].pc = "arrived" /\ ~window[w].linked
        /\ window[w].origin # None /\ Rebuilt(window[w].origin))
       => window[w].redir = IF RedirectURL # <<>> THEN RedirectURL ELSE Wanted(window[w].origin)

(* docs/source/customize.rst says the same of the link $authtarget. *)
AuthtargetKeepsOrigin ==
    \A w \in Window :
       (/\ window[w].pc = "arrived"
        /\ window[w].origin # None /\ Rebuilt(window[w].origin))
       => window[w].redir = IF RedirectURL # <<>> THEN RedirectURL ELSE Wanted(window[w].origin)

(* A page made before the session ended does not begin another one: only a   *)
(* page made since the last reset of the client authenticates it             *)
(* (try_to_authenticate, client_reset).                                      *)
OldPagesRejected ==
    [][\A w \in Window : (window[w].pc # "arrived" /\ window'[w].pc = "arrived") =>
          window[w].made = client.resets]_vars

(* The functions on text depend on no state.  They are looked at before a    *)
(* window is used, on all short inputs.                                      *)
Fresh == client.resets = 0 /\ window = [w \in Window |-> Nothing]

(* Encoding and decoding in buffers that fit gives the text back, and        *)
(* encoding fails exactly when the buffer is too small, without having       *)
(* written more (uh_urlencode, uh_urldecode).                                *)
EncodingInverts ==
    Fresh => \A t \in Text({"2", "f", "/", "%"}, MaxText) :
       LET size == 3 * Len(t) - 2 * Cardinality({i \in DOMAIN t : t[i] \notin DOMAIN Hex}) IN
       \A blen \in 0..(size + 1) :
          LET e == uh_urlencode(blen, t) IN
          /\ (e.rc = 0) = (size <= blen)
          /\ Len(e.text) <= blen
          /\ e.rc = 0 => uh_urldecode(Len(t), e.text) = [text |-> t, rc |-> 0]

(* A path that begins with a slash is resolved component by component, and   *)
(* no path keeps a ".." (buffer_path_simplify).                              *)
PathsResolved ==
    Fresh => \A p \in Text({"/", ".", "a"}, MaxPath) :
       /\ IsPrefix(<<"/">>, p) => buffer_path_simplify(p) = Resolved(p)
       /\ \A k \in 0..MaxPath : ~GoesUp(buffer_path_simplify(p), k)

(* Pieces of a template and what becomes of them: a character, a variable,   *)
(* an unknown name, no name, and a name too long for a variable.             *)
Pieces == {[text |-> <<"-">>, value |-> <<"-">>],
           [text |-> <<"$", "a", "_">>, value |-> <<"-", "$", "a">>],
           [text |-> <<"$", "a">>, value |-> <<"a">>],
           [text |-> <<"$">>, value |-> <<>>],
           [text |-> <<"$", "a", "a", "a">>, value |-> <<"a", "a", "a">>]}
Variables == [name \in {<<"a", "_">>, <<"a", "a", "a">>} |-> <<"-", "$", "a">>]

(* A template made of pieces gives their values one after the other, cut at  *)
(* the size of the buffer (tmpl_parse).                                      *)
TemplateFilled ==
    Fresh => \A ps \in Text(Pieces, MaxPieces) :
       LET full == FlattenSeq([i \in DOMAIN ps |-> ps[i].value])
           src  == FlattenSeq([i \in DOMAIN ps |-> ps[i].text])
       IN \A dst_len \in 0..(Len(full) + 1) :
             tmpl_parse(Variables, 2, dst_len, src) = Cut(full, dst_len)
========================
