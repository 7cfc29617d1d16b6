------------------------------- MODULE AppTypes -------------------------------
(***************************************************************************)
(* sniToAppType of src/types.cpp: the application that a server name, an    *)
(* HTTP host or a DNS name belongs to.  A name is a sequence of characters. *)
(***************************************************************************)
EXTENDS DomainRules

Chars(text) == [i \in 1..Len(text) |-> SubSeq(text, i, i)]

\* The applications in the order of the tests, each with its domains.
Applications == <<
    <<"YOUTUBE", {"youtube.com", "ytimg.com", "youtu.be", "yt3.ggpht.com"}>>,
    <<"INSTAGRAM", {"instagram.com", "cdninstagram.com"}>>,
    <<"WHATSAPP", {"whatsapp.com", "whatsapp.net", "wa.me"}>>,
    <<"FACEBOOK", {"facebook.com", "fbcdn.net", "fb.com", "fbsbx.com", "meta.com"}>>,
    <<"GOOGLE", {"google.com", "googleapis.com", "gstatic.com", "ggpht.com",
                 "gvt1.com", "googleusercontent.com"}>>,
    <<"TWITTER", {"twitter.com", "twimg.com", "x.com", "t.co"}>>,
    <<"NETFLIX", {"netflix.com", "nflxvideo.net", "nflximg.net"}>>,
    <<"AMAZON", {"amazon.com", "amazon.co.uk", "amazon.de", "amazonaws.com",
                 "cloudfront.net", "aws.amazon.com"}>>,
    <<"MICROSOFT", {"microsoft.com", "msn.com", "live.com", "outlook.com",
                    "office.com", "office365.com", "azure.com", "bing.com",
                    "windows.com", "microsoftonline.com"}>>,
    <<"APPLE", {"apple.com", "icloud.com", "mzstatic.com", "itunes.apple.com"}>>,
    <<"TELEGRAM", {"telegram.org", "telegram.me", "t.me"}>>,
    <<"TIKTOK", {"tiktok.com", "tiktokcdn.com", "musical.ly", "bytedance.com"}>>,
    <<"SPOTIFY", {"spotify.com", "scdn.co"}>>,
    <<"ZOOM", {"zoom.us", "zoom.com", "zoomgov.com"}>>,
    <<"DISCORD", {"discord.com", "discord.gg", "discordapp.com"}>>,
    <<"GITHUB", {"github.com", "githubusercontent.com", "github.io"}>>,
    <<"CLOUDFLARE", {"cloudflare.com", "cloudflare.net", "1.1.1.1",
                     "workers.dev", "pages.dev"}>> >>

\* What a reader of the table may rely on: the domains are texts without a *, and
\* one that lies below another stands no later than the other.
ASSUME TableAssumption ==
    \A i, j \in DOMAIN Applications :
        \A a \in Applications[i][2], b \in Applications[j][2] :
            /\ Chars(a) \in Seq(Char) /\ Chars(a) # <<>>
            /\ ~isWildcard(Chars(a))
            /\ IsSuffix(Labels(Chars(a)), Labels(Chars(b))) => j <= i

\* normalizeDomain is the RuleManager's, once more.
normalizeDomain(name) == normalize(name)

\* Variant: what stands before the domain is not looked at.
isDomainOrSuffix(host, apex) == host = apex \/ EndsWith(host, apex)

isDomainOrSubdomain(host, apex) ==
    \/ host = apex
    \/ /\ Len(host) > Len(apex)
       /\ host[Len(host) - Len(apex)] = Dot
       /\ EndsWith(host, apex)

\* The first application that has a fitting domain.
sniToAppType(name) ==
    LET host == normalizeDomain(name)
        fitting == {i \in DOMAIN Applications :
                      \E apex \in Applications[i][2] :
                          isDomainOrSubdomain(host, Chars(apex))}
    IN  IF host = <<>> THEN "UNKNOWN"
        ELSE IF fitting = {} THEN "HTTPS" ELSE Applications[Min(fitting)][1]

-----------------------------------------------------------------------------
(* The reference: the longest domain, by labels, whatever the order          *)

\* The applications with a domain that covers a name, and how many labels the
\* domain has.
Covering(name) ==
    LET labels == LabelsOfName(name)
        covers(apex) == Covers(Labels(Chars(apex)), labels)
    IN  UNION {{<<Len(Labels(Chars(apex))), app[1]>> :
                   apex \in {a \in app[2] : covers(a)}} :
               app \in Range(Applications)}

MostSpecificApps(name) ==
    LET covering == Covering(name)
    IN  {c[2] : c \in {d \in covering : \A e \in covering : d[1] >= e[1]}}
=============================================================================
