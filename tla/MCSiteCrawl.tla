---------------------------- MODULE MCSiteCrawl ----------------------------
(* A congress site and a section of the portal gob.mx, for SiteCrawl.      *)
EXTENDS SiteCrawl

CONSTANTS c1, c2

\* A page, a legislative page and a file.
Html(host, site, path) ==
  [host |-> host, site |-> site, path |-> path, file |-> None, years |-> {},
   legislative |-> FALSE, detail |-> FALSE, hints |-> 0, skip |-> FALSE]
Norms(host, site, path) == [Html(host, site, path) EXCEPT !.legislative = TRUE]
File(host, site, path, ext, years) ==
  [Norms(host, site, path) EXCEPT !.file = ext, !.years = years]

Home    == Html("congreso", "congreso", <<>>)
Gaceta  == [Norms("congreso", "congreso", <<"gaceta">>) EXCEPT !.hints = 1]
Menu    == Html("congreso", "congreso", <<"nosotros">>)
Decreto == File("congreso", "congreso", <<"decreto">>, "pdf", {2026})
Vieja   == File("congreso", "congreso", <<"gaceta", "2019">>, "pdf", {2019})
Sesion  == [Html("congreso", "congreso", <<"nota_detalle">>) EXCEPT !.detail = TRUE]
Acta    == File("congreso", "congreso", <<"acta", "2019">>, "word", {2019, 2026})
Indice  == Norms("congreso", "congreso", <<"indice">>)
Web2    == Html("web.congreso", "congreso", <<>>)
Red     == [Html("red", None, <<>>) EXCEPT !.skip = TRUE]
Perfil  == Norms("red", None, <<"perfil">>)

Cofepris == Html("gob.mx", None, <<"cofepris">>)
Norma    == Norms("gob.mx", None, <<"cofepris", "acuerdo">>)
Salud    == Norms("gob.mx", None, <<"salud", "norma">>)
Upload   == File("gob.mx", None, <<"cms", "uploads", "acuerdo">>, "pdf", {2026})

MCUrls == {Home, Gaceta, Menu, Decreto, Vieja, Sesion, Acta, Indice, Web2, Red, Perfil,
           Cofepris, Norma, Salud, Upload}

Page(links) == [kind |-> "ok", ext |-> "html", links |-> links, refresh |-> None]
Stub(u)     == [Page(<<>>) EXCEPT !.refresh = u]
Bytes       == [Page(<<>>) EXCEPT !.ext = "pdf"]
Data        == [Page(<<>>) EXCEPT !.ext = "xml"]
Empty       == [Page(<<>>) EXCEPT !.ext = "empty"]
To(u, c)    == [kind |-> "redirect", to |-> u, cookie |-> c]
Error(k)    == [kind |-> k]

MCWeb == [u \in MCUrls |->
  CASE u = Home     -> {Page(<<Menu, Gaceta, Decreto, Vieja, Red>>), Stub(Web2),
                        To(Home, c1), To(Home, c2), Error("tls")}
    [] u = Web2     -> {Page(<<Web2, Indice>>), Stub(Home), Empty}
    [] u = Gaceta   -> {Page(<<Home, Sesion, Decreto>>), To(Vieja, None), Stub(Sesion),
                        Error("server")}
    [] u = Sesion   -> {Page(<<Gaceta, Acta, Indice>>), To(Decreto, None), Error("network")}
    [] u = Acta     -> {Bytes, To(Indice, c1), Page(<<>>), Error("network")}
    [] u = Indice   -> {Page(<<Acta, Gaceta>>), Stub(Sesion), To(Acta, c1), Error("tls")}
    [] u = Menu     -> {Page(<<Sesion, Gaceta, Home>>), Data, To(Sesion, None), To(Red, None),
                        Error("odd")}
    [] u = Decreto  -> {Bytes, Empty, To(Menu, None), Error("large"), Error("auth")}
    [] u = Vieja    -> {Bytes}
    [] u = Red      -> {Page(<<Red, Perfil>>)}
    [] u = Perfil   -> {Page(<<>>)}
    [] u = Cofepris -> {Page(<<Norma, Salud, Upload>>), Error("limit")}
    [] u = Norma    -> {Page(<<Upload, Cofepris>>), To(Salud, None), To(Upload, None),
                        Error("client")}
    [] u = Salud    -> {Page(<<Norma>>)}
    [] u = Upload   -> {Bytes, Error("network")}]

MCAnswers == UNION {MCWeb[u] : u \in MCUrls}
MCStarts  == {Home, Cofepris}
=============================================================================
