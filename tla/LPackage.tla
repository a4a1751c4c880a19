------------------------------ MODULE LPackage ------------------------------
(***************************************************************************)
(* How require finds a module, src/src/loadlib.c: the path search         *)
(* findfile (with pushnexttemplate and luaL_gsub of src/src/lauxlib.c)    *)
(* and the four loaders of package.loaders.  Pure operators: a string is *)
(* a sequence of one-character strings, as in LStrMatch.  The file system *)
(* and the dynamic linker are constants: which file names fopen opens,   *)
(* which Lua files luaL_loadfile compiles, which C libraries ll_load     *)
(* opens and which luaopen_ functions ll_sym finds in them.              *)
(***************************************************************************)
EXTENDS Integers, Sequences, SequencesExt

CONSTANTS Mods,       \* module names (model values)
          ModName,    \* [Mods -> the name's characters]
          EnvPath,    \* getenv(INLUA_PATH): a string, or NoEnv when unset
          EnvCPath,   \* getenv(INLUA_CPATH)
          DefPath,    \* INLUA_PATH_DEFAULT
          DefCPath,   \* INLUA_CPATH_DEFAULT
          Readable,   \* the file names readable() opens
          Compiles,   \* the Lua files luaL_loadfile loads without error
          CLibs,      \* the C libraries ll_load opens
          Exports,    \* <<file, m>>: library file exports m's luaopen_ function
          Preload     \* the modules with a package.preload field

PATHSEP == ";"
PATH_MARK == <<"?">>
DIRSEP == <<"/">>

NoFile == <<"*">>          \* findfile's NULL: no file name is "*"
NoEnv == <<"*">>           \* getenv's NULL: no environment value is "*"

(* "\1"; a character no environment value or default path contains *)
AUXMARK == <<"@">>
NoTemplate == [t |-> <<>>, next |-> 0]

(* ll_loadfunc's results: 0, ERRLIB, ERRFUNC *)
ERRLIB == 1
ERRFUNC == 2

(* strstr(s, p): the first index where p occurs in s, 0 if none *)
StrStr(s, p) ==
  LET k == {i \in 1 .. Len(s) - Len(p) + 1 : SubSeq(s, i, i + Len(p) - 1) = p}
  IN  IF k = {} THEN 0 ELSE Min(k)

(* mutant: only the first occurrence of p is replaced *)
LuaLGsubFirst(s, p, r) ==
  LET w == StrStr(s, p) IN
  IF w = 0 THEN s ELSE SubSeq(s, 1, w - 1) \o r \o SubSeq(s, w + Len(p), Len(s))

(* luaL_gsub(s, p, r): every occurrence of p, left to right, becomes r *)
RECURSIVE LuaLGsub(_, _, _)
LuaLGsub(s, p, r) ==
  LET w == StrStr(s, p) IN
  IF w = 0 THEN s ELSE SubSeq(s, 1, w - 1) \o r \o LuaLGsub(SubSeq(s, w + Len(p), Len(s)), p, r)

(* setpath(fieldname, envname, def) as luaopen_package calls it: the     *)
(* default when the variable is unset; else each ";;" becomes ";AUXMARK;" *)
(* and then each AUXMARK the default (setprogdir is a no-op off Windows) *)
setpath(env, def) ==
  IF env = NoEnv THEN def
  ELSE LuaLGsub(LuaLGsub(env, <<PATHSEP, PATHSEP>>, <<PATHSEP>> \o AUXMARK \o <<PATHSEP>>),
                AUXMARK, def)

(* package.path and package.cpath after luaopen_package *)
Path == setpath(EnvPath, DefPath)
CPath == setpath(EnvCPath, DefCPath)

(* the first index from 'from' on where path has (sep) or has not (~sep) *)
(* a separator, Len(path) + 1 at the end                                  *)
NextSep(path, from, sep) ==
  Min({k \in from .. Len(path) : (path[k] = PATHSEP) = sep} \cup {Len(path) + 1})

(* mutant: strlen(path) - 1 for the end of the last template *)
pushnexttemplate_short(path, from) ==
  LET b == NextSep(path, from, FALSE)
      l == NextSep(path, b, TRUE)
  IN  IF b > Len(path) THEN NoTemplate
      ELSE [t |-> SubSeq(path, b, IF l > Len(path) THEN l - 2 ELSE l - 1), next |-> l]

(* pushnexttemplate(path): skip separators; none at the end; else the   *)
(* template up to the next separator (or the end), and where it stopped  *)
pushnexttemplate(path, from) ==
  LET b == NextSep(path, from, FALSE)
      l == NextSep(path, b, TRUE)
  IN  IF b > Len(path) THEN NoTemplate ELSE [t |-> SubSeq(path, b, l - 1), next |-> l]

(* findfile's loop from 'from': each template's marks replaced by the   *)
(* name; the first readable file name, NoFile when the path runs out     *)
RECURSIVE FindFrom(_, _, _)
FindFrom(name, path, from) ==
  LET r == pushnexttemplate(path, from) IN
  IF r = NoTemplate THEN NoFile
  ELSE LET f == LuaLGsub(r.t, PATH_MARK, name) IN
       IF f \in Readable THEN f ELSE FindFrom(name, path, r.next)

(* findfile(name, pname): the name's dots become directory separators *)
findfile(name, path) == FindFrom(LuaLGsub(name, <<".">>, DIRSEP), path, 1)

(* ll_loadfunc(path, sym), sym being m's luaopen_ name (mkfuncname) *)
ll_loadfunc(f, m) ==
  IF f \notin CLibs THEN ERRLIB ELSE IF <<f, m>> \notin Exports THEN ERRFUNC ELSE 0

(* a loader's answer: "found" (it returned the module's function),     *)
(* "missing" (a message or nothing) or "broken" (loaderror raised)      *)

(* loader_preload: package.preload[name] *)
loader_preload(m) == IF m \in Preload THEN "found" ELSE "missing"

(* loader_Lua: findfile over package.path, then luaL_loadfile *)
loader_Lua(m) ==
  LET f == findfile(ModName[m], Path) IN
  IF f = NoFile THEN "missing" ELSE IF f \in Compiles THEN "found" ELSE "broken"

(* loader_C: findfile over package.cpath, then ll_loadfunc; any failure *)
(* is loaderror                                                          *)
loader_C(m) ==
  LET f == findfile(ModName[m], CPath) IN
  IF f = NoFile THEN "missing" ELSE IF ll_loadfunc(f, m) # 0 THEN "broken" ELSE "found"

(* the root of a dotted name, as loader_Croot takes it *)
Root(n) == SubSeq(n, 1, StrStr(n, <<".">>) - 1)

(* loader_Croot: nothing for a name without a dot; else the library of  *)
(* the name's root, in which a missing function is only a message       *)
loader_Croot(m) ==
  LET n == ModName[m]
      d == StrStr(n, <<".">>)
      f == findfile(Root(n), CPath)
  IN  IF d = 0 \/ f = NoFile THEN "missing"
      ELSE CASE ll_loadfunc(f, m) = 0       -> "found"
             [] ll_loadfunc(f, m) = ERRFUNC -> "missing"
             [] OTHER                       -> "broken"

(* package.loaders, in the order luaopen_package fills it *)
Loaders == <<"preload", "lua", "c", "croot">>

LoaderAnswer(m, l) ==
  CASE l = "preload" -> loader_preload(m)
    [] l = "lua"     -> loader_Lua(m)
    [] l = "c"       -> loader_C(m)
    [] OTHER         -> loader_Croot(m)

(* ll_require's loop over package.loaders from the i-th: the answer of *)
(* the first loader that does not return a message, "none" past the end *)
RECURSIVE LoadersFrom(_, _)
LoadersFrom(m, i) ==
  IF i > Len(Loaders) THEN "none"
  ELSE LET a == LoaderAnswer(m, Loaders[i]) IN
       IF a # "missing" THEN a ELSE LoadersFrom(m, i + 1)

FirstFind(m) == LoadersFrom(m, 1)

(* what require's loaders answer for each module, computed once *)
Found == [m \in Mods |-> FirstFind(m)]

(* the manual's path search (section 5.3, package.loaders): the path is *)
(* a sequence of templates separated by semicolons; in each, every      *)
(* interrogation mark is replaced by the name with its dots replaced by *)
(* the directory separator; the first readable file name is the result  *)
RefTemplates(path) ==
  SelectSeq(FoldLeft(LAMBDA acc, c : IF c = PATHSEP THEN Append(acc, <<>>)
                                     ELSE [acc EXCEPT ![Len(acc)] = Append(@, c)],
                     <<<<>>>>, path),
            LAMBDA t : t # <<>>)

RefFill(t, name) ==
  LET n == FlattenSeq([i \in 1 .. Len(name) |-> IF name[i] = "." THEN DIRSEP ELSE <<name[i]>>])
  IN  FlattenSeq([i \in 1 .. Len(t) |-> IF <<t[i]>> = PATH_MARK THEN n ELSE <<t[i]>>])

RefFindFile(name, path) ==
  LET c == [i \in 1 .. Len(RefTemplates(path)) |-> RefFill(RefTemplates(path)[i], name)]
      k == {i \in DOMAIN c : c[i] \in Readable}
  IN  IF k = {} THEN NoFile ELSE c[Min(k)]

(* findfile agrees with the manual for the names loading m looks up *)
FindsAsManual(m) ==
  \A n \in {ModName[m], Root(ModName[m])}, p \in {Path, CPath} :
    findfile(n, p) = RefFindFile(n, p)

(* FindsAsManual for each module, computed once *)
FindsOK == [m \in Mods |-> FindsAsManual(m)]
=============================================================================
